---- MODULE Spec2Model ----
(***************************************************************************)
(* VoxFlow python-service: the transcription job orchestrator              *)
(* (VoxtralEngine.transcribe_file / cancel_job), the cleanup service, the  *)
(* chunker of AudioProcessor and the overlap deduplication.                *)
(*                                                                         *)
(* The service runs on one asyncio event loop: a coroutine runs without    *)
(* interruption until it reaches an await that really suspends.  Each      *)
(* action below is the code of one coroutine between two such suspension   *)
(* points.                                                                 *)
(***************************************************************************)
EXTENDS Integers, Sequences, FiniteSets, TLC

(***************************************************************************)
(* Bounds of the model.                                                    *)
(***************************************************************************)
NumJobs == 2
MaxConcurrentRequests == 1
MaxCancelCalls == 2
MaxReloadCalls == 1

Jobs == 1..NumJobs

(***************************************************************************)
(* ProcessingStatus (models/transcription.py).                             *)
(***************************************************************************)
PENDING == "pending"
PROCESSING == "processing"
COMPLETED == "completed"
FAILED == "failed"
CANCELLED == "cancelled"

ProcessingStatus == {PENDING, PROCESSING, COMPLETED, FAILED, CANCELLED}
TerminalStatus == {COMPLETED, FAILED, CANCELLED}

(***************************************************************************)
(* Requests.  An upload is described by the length of its audio in ms      *)
(* (len(AudioSegment)) and its ProcessingConfig.                           *)
(***************************************************************************)
MsPerMinute == 60000
MsPerSecond == 1000
MinChunkMs == 5000

Request(d, c, o) ==
    [duration_ms |-> d, chunk_duration_minutes |-> c, overlap_seconds |-> o]

JobRequests == { Request(30000, 1, 3), Request(120000, 1, 3) }

(***************************************************************************)
(* math.ceil(a / b) for a >= 0, b > 0.                                     *)
(***************************************************************************)
Ceil(a, b) == (a + b - 1) \div b

Max(a, b) == IF a >= b THEN a ELSE b
Min(a, b) == IF a <= b THEN a ELSE b

(***************************************************************************)
(* transcribe_file: estimated_chunks = max(1, ceil(duration_minutes /      *)
(* chunk_duration)).                                                       *)
(***************************************************************************)
EstimatedChunks(req) ==
    Max(1, Ceil(req.duration_ms, req.chunk_duration_minutes * MsPerMinute))

(***************************************************************************)
(* AudioProcessor._process_chunked_file: the windows                       *)
(* range(0, total_duration, chunk_duration_ms - overlap_ms), each cut at   *)
(* the end of the audio; a window shorter than 5 s is skipped unless it    *)
(* reaches the end of the audio.  The result is the sequence of emitted    *)
(* chunks [start_ms, end_ms], in emission order.                           *)
(***************************************************************************)
\* mutant of IsFinalChunk: no window counts as the final one
NeverFinalChunk(end_ms, total_duration) == FALSE

\* is_final_chunk (line 104)
IsFinalChunk(end_ms, total_duration) == end_ms >= total_duration

RECURSIVE ChunkWindows(_, _, _, _)
ChunkWindows(start_ms, total_duration, chunk_duration_ms, overlap_ms) ==
    IF start_ms >= total_duration
    THEN << >>
    ELSE LET end_ms == Min(start_ms + chunk_duration_ms, total_duration)
             is_final_chunk == IsFinalChunk(end_ms, total_duration)
             rest == ChunkWindows(start_ms + (chunk_duration_ms - overlap_ms),
                                  total_duration, chunk_duration_ms, overlap_ms)
         IN  IF (end_ms - start_ms) < MinChunkMs /\ ~is_final_chunk
             THEN rest
             ELSE << [start_ms |-> start_ms, end_ms |-> end_ms] >> \o rest

_process_chunked_file(req) ==
    ChunkWindows(0, req.duration_ms,
                 req.chunk_duration_minutes * MsPerMinute,
                 req.overlap_seconds * MsPerSecond)

(***************************************************************************)
(* AudioProcessor.process_large_file: one chunk for a file no longer than  *)
(* chunk_duration_minutes, the windows of _process_chunked_file otherwise. *)
(***************************************************************************)
process_large_file(req) ==
    IF req.duration_ms <= req.chunk_duration_minutes * MsPerMinute
    THEN << [start_ms |-> 0, end_ms |-> req.duration_ms] >>
    ELSE _process_chunked_file(req)


(***************************************************************************)
(* ProgressNotifier.enabled (settings.ENABLE_PROGRESS_NOTIFICATIONS): the  *)
(* model is of a deployment with notifications switched on.                *)
(***************************************************************************)
NotificationsEnabled == TRUE

(***************************************************************************)
(* progress_percent is (n / d) * 100; it is kept as the pair <<n, d>>.     *)
(***************************************************************************)
Pct(n, d) == << n, d >>
PctZero == Pct(0, 1)
PctHundred == Pct(1, 1)
PctLE(p, q) == p[1] * q[2] <= q[1] * p[2]

NoJob == [status |-> "none"]
NoResponse == [status |-> "none"]

VARIABLES
    \* VoxtralEngine
    active_jobs,            \* keys of self.active_jobs
    job_progress,           \* the JobProgress object of each job
    sem_value,              \* active_job_semaphore: free slots
    sem_waiters,            \* active_job_semaphore: waiting acquirers, FIFO
    \* one transcribe_file call per job
    pc,                     \* where the call is suspended
    request,                \* its TranscriptionRequest
    chunk_results,          \* its local chunk_results
    response,               \* the TranscriptionResponse it returned
    \* cancel_job calls
    cancel_pc,              \* where a cancel_job call for the job is suspended
    cancel_calls,           \* cancel_job calls made for the job
    cancel_returned,        \* a cancel_job call for the job has returned True
    started_after_cancel,   \* _transcribe_chunk calls started after that
    finished_after_cancel,  \* _transcribe_chunk calls returned after that
    \* ProgressNotifier
    notes,                  \* notifications sent for each job, in order
    \* CleanupService
    active_sessions,
    session_last_activity,
    protected_files,
    cleanup_tasks,
    delayed_fired,          \* the delayed cleanup of the session has run
    \* the temp directory
    disk,
    \* the model
    is_loaded,              \* self.is_loaded (self.model is set)
    reload_pc,              \* where a reload call is suspended
    reload_calls,           \* reload calls made
    \* ProgressNotifier, as its callers see it
    notify_ok               \* what the last notify_* call that ended returned

engineVars == << active_jobs, job_progress, sem_value, sem_waiters >>
callVars == << pc, request, chunk_results, response >>
cancelVars == << cancel_pc, cancel_calls, cancel_returned,
                 started_after_cancel, finished_after_cancel >>
cleanupVars == << active_sessions, session_last_activity, protected_files,
                  cleanup_tasks, delayed_fired >>
jobVars == << engineVars, callVars, cancelVars, notes, cleanupVars, disk >>
reloadVars == << is_loaded, reload_pc, reload_calls >>
serviceVars == << jobVars, notify_ok, reloadVars >>

(***************************************************************************)
(* Directories under settings.temp_path: the one the cleanup service       *)
(* removes for a session id, and the one AudioProcessor.process_large_file *)
(* creates under a uuid of its own.                                        *)
(***************************************************************************)
SessionDir(sid) == << "session", sid >>
ProcessorDir(j) == << "processor", j >>

(***************************************************************************)
(* Function helpers for dictionaries.                                      *)
(***************************************************************************)
Put(f, k, v) == [x \in (DOMAIN f) \cup {k} |-> IF x = k THEN v ELSE f[x]]
Pop(f, k) == [x \in (DOMAIN f) \ {k} |-> f[x]]
EmptyDict == [x \in {} |-> 0]


(***************************************************************************)
(* CleanupService.  Its methods are functions from the state of the        *)
(* service and of the temp directory, the record cs, to the state after    *)
(* the call.  Timestamps are logical: the n-th recorded activity of a      *)
(* session has timestamp n.                                                *)
(***************************************************************************)
CleanupState ==
    [active_sessions |-> active_sessions,
     session_last_activity |-> session_last_activity,
     protected_files |-> protected_files,
     cleanup_tasks |-> cleanup_tasks,
     disk |-> disk]

register_session(cs, session_id) ==
    [cs EXCEPT !.active_sessions = @ \cup {session_id},
               !.session_last_activity = Put(@, session_id, 1),
               !.protected_files = Put(@, session_id, {})]

update_session_activity(cs, session_id) ==
    IF session_id \in cs.active_sessions
    THEN [cs EXCEPT !.session_last_activity =
                        Put(@, session_id,
                            IF session_id \in DOMAIN @ THEN @[session_id] + 1 ELSE 1)]
    ELSE cs

\* a file of the directory of a session
SessionFile(sid, name) == << "session", sid, name >>

InSessionDir(path, sid) ==
    /\ Len(path) = 3
    /\ path[1] = "session"
    /\ path[2] = sid

\* mutant of _remove_directory_contents: nothing is unlinked
KeepDirectoryContents(paths, sid) == paths

\* _remove_directory_contents (305-334): every file below the directory is
\* unlinked, protected or not
_remove_directory_contents(paths, sid) ==
    { path \in paths : ~InSessionDir(path, sid) }

\* mutant of RefusesCleanup: an active session is cleaned without force
NeverRefusesCleanup(cs, session_id, force) == FALSE

\* lines 83-85
RefusesCleanup(cs, session_id, force) ==
    ~force /\ session_id \in cs.active_sessions

\* lines 94-104: the contents go, then the directory if it is empty
RemoveSessionDir(paths, sid) ==
    IF SessionDir(sid) \in paths
    THEN LET left == _remove_directory_contents(paths, sid)
         IN  IF \E path \in left : InSessionDir(path, sid)
             THEN left ELSE left \ {SessionDir(sid)}
    ELSE paths

cleanup_session(cs, session_id, force) ==
    IF RefusesCleanup(cs, session_id, force)
    THEN cs
    ELSE [cs EXCEPT !.active_sessions = @ \ {session_id},
                    !.session_last_activity = Pop(@, session_id),
                    !.disk = RemoveSessionDir(@, session_id),
                    !.protected_files = Pop(@, session_id),
                    !.cleanup_tasks = Pop(@, session_id)]

\* the value cleanup_session returns: cleaned_count (87, 97, 120)
cleaned_count(cs, session_id, force) ==
    IF RefusesCleanup(cs, session_id, force) \/ SessionDir(session_id) \notin cs.disk
    THEN 0
    ELSE Cardinality({ path \in cs.disk : InSessionDir(path, session_id) })

\* protect_file (66-69)
protect_file(cs, session_id, file_path) ==
    IF session_id \in DOMAIN cs.protected_files
    THEN [cs EXCEPT !.protected_files[session_id] = @ \cup {file_path}]
    ELSE cs

\* stop (41-51), as far as the tasks go
stop(cs) == [cs EXCEPT !.cleanup_tasks = EmptyDict]

\* mutant of CancelsExistingTask: the task in the dictionary is left alone
LeavesExistingTask(cs, session_id) == FALSE

\* schedule_delayed_cleanup, lines 142-144
CancelsExistingTask(cs, session_id) == session_id \in DOMAIN cs.cleanup_tasks

schedule_delayed_cleanup(cs, session_id) ==
    [cs EXCEPT !.cleanup_tasks = Put(@, session_id, "sleeping")]

SetCleanupState(cs) ==
    /\ active_sessions' = cs.active_sessions
    /\ session_last_activity' = cs.session_last_activity
    /\ protected_files' = cs.protected_files
    /\ cleanup_tasks' = cs.cleanup_tasks
    /\ disk' = cs.disk

(***************************************************************************)
(* The task created by schedule_delayed_cleanup, once its sleep is over:   *)
(* cleanup_session(session_id) with force left at its default, False.  A   *)
(* task that was replaced or cancelled is no longer in cleanup_tasks and   *)
(* never gets here.                                                        *)
(***************************************************************************)
delayed_cleanup(session_id) ==
    /\ session_id \in DOMAIN cleanup_tasks
    /\ cleanup_tasks[session_id] = "sleeping"
    /\ LET cs == cleanup_session(CleanupState, session_id, FALSE)
       IN  SetCleanupState(
               [cs EXCEPT !.cleanup_tasks =
                   IF session_id \in DOMAIN @
                   THEN [@ EXCEPT ![session_id] = "done"]
                   ELSE @])
    /\ delayed_fired' = delayed_fired \cup {session_id}
    /\ UNCHANGED << engineVars, callVars, cancelVars, notes >>

(***************************************************************************)
(* ProgressNotifier.notify_job_progress: the notification is sent (the     *)
(* POST is issued) when notifications are enabled.                         *)
(***************************************************************************)
Notification(st, pct) == [status |-> st, progress_percent |-> pct]

notify_job_progress(ns, job_id, note) ==
    IF NotificationsEnabled
    THEN [ns EXCEPT ![job_id] = Append(@, note)]
    ELSE ns

notify_job_started(ns, job_id) ==
    notify_job_progress(ns, job_id, Notification("started", PctZero))
notify_chunk_completed(ns, job_id, chunk_index, total_chunks) ==
    notify_job_progress(ns, job_id,
        Notification("processing", Pct(chunk_index + 1, total_chunks)))
notify_job_completed(ns, job_id) ==
    notify_job_progress(ns, job_id, Notification("completed", PctHundred))
notify_job_failed(ns, job_id, progress_percent) ==
    notify_job_progress(ns, job_id, Notification("failed", progress_percent))
notify_job_cancelled(ns, job_id) ==
    notify_job_progress(ns, job_id, Notification("cancelled", PctZero))

(***************************************************************************)
(* What the receiver does with a POST (lines 57-104): it answers 200, an   *)
(* error status below 500, a 5xx status, it does not answer in time, it    *)
(* cannot be connected to, or the client fails in another way.             *)
(***************************************************************************)
ReceiverOutcomes == {"200", "4xx", "5xx", "timeout", "connect_error", "exception"}

\* the value notify_job_progress returns when `outcome` ended its last POST
NotifyDelivered(outcome) == outcome = "200"

\* the exceptions of the `try` of notify_job_progress that leave the method
\* (lines 90-108: TimeoutException, ConnectError and Exception are caught)
RaisesOnError(outcome) == outcome # "200"

NotifierRaises(outcome) == FALSE


(***************************************************************************)
(* asyncio.Semaphore (active_job_semaphore).  acquire() takes a slot at    *)
(* once when the semaphore is not locked, else the caller queues; release  *)
(* frees a slot, which goes to the first waiter.                           *)
(***************************************************************************)
\* a finally block that leaves the job in active_jobs
ActiveJobsKept(jobs, job_id) == jobs

\* transcribe_file, lines 970-972: `finally` pops the job from active_jobs
active_jobs_pop(jobs, job_id) == jobs \ {job_id}

\* an exit from the `async with` block that keeps the slot
SlotKept(value) == value

\* asyncio.Semaphore.release, called when the `async with` block of line
\* 825 is left, by return or by exception
release(value) == value + 1

\* a semaphore that admits every caller (an unguarded variant of locked())
SemaphoreNeverLocked == FALSE

SemaphoreLocked == sem_value = 0 \/ sem_waiters # << >>

(***************************************************************************)
(* transcribe_file, line 865: the cancellation check made for every chunk  *)
(* the chunker hands over, before it is transcribed.                       *)
(***************************************************************************)
\* a loop that never looks at the cancellation flag
CancellationIgnored(j) == FALSE

JobWasCancelled(j) == job_progress[j].status = CANCELLED

(***************************************************************************)
(* get_job_progress (lines 1015-1017): self.active_jobs.get(job_id), the   *)
(* JobProgress of a job in active_jobs and None for every other job id.    *)
(***************************************************************************)
get_job_progress(job_id) ==
    IF job_id \in active_jobs THEN job_progress[job_id] ELSE NoJob

(***************************************************************************)
(* The chunks process_large_file yields for the job's request.             *)
(***************************************************************************)
JobChunks(j) == process_large_file(request[j])

SegmentCount(results) ==
    Cardinality({i \in DOMAIN results : results[i].segments > 0})

BumpIf(cond, f, j) == IF cond THEN [f EXCEPT ![j] = @ + 1] ELSE f

(***************************************************************************)
(* transcribe_file, lines 809-832: the JobProgress is created with status  *)
(* PROCESSING and put into active_jobs; then the semaphore is acquired.    *)
(* With a free slot the call goes on to register the session and suspends  *)
(* in get_audio_info; otherwise it queues on the semaphore.  A call made   *)
(* while the model is not loaded raises at line 810 and changes nothing.   *)
(***************************************************************************)
TranscribeFile(j) ==
    /\ pc[j] = "idle"
    /\ is_loaded
    /\ \E req \in JobRequests : request' = [request EXCEPT ![j] = req]
    /\ job_progress' = [job_progress EXCEPT ![j] =
            [status |-> PROCESSING, progress_percent |-> PctZero,
             total_chunks |-> 0, current_chunk |-> 0]]
    /\ active_jobs' = active_jobs \cup {j}
    /\ IF ~SemaphoreLocked
       THEN /\ sem_value' = sem_value - 1
            /\ sem_waiters' = sem_waiters
            /\ SetCleanupState(register_session(CleanupState, j))
            /\ pc' = [pc EXCEPT ![j] = "get_audio_info"]
       ELSE /\ sem_waiters' = Append(sem_waiters, j)
            /\ sem_value' = sem_value
            /\ pc' = [pc EXCEPT ![j] = "acquire"]
            /\ UNCHANGED << active_sessions, session_last_activity,
                            protected_files, cleanup_tasks, disk >>
    /\ UNCHANGED << chunk_results, response, cancelVars, notes, delayed_fired >>

(***************************************************************************)
(* A queued transcribe_file call gets the slot a release freed (line 825)  *)
(* and registers its session (line 827).                                   *)
(***************************************************************************)
AcquireSlot(j) ==
    /\ pc[j] = "acquire"
    /\ sem_value > 0
    /\ sem_waiters # << >> /\ Head(sem_waiters) = j
    /\ sem_value' = sem_value - 1
    /\ sem_waiters' = Tail(sem_waiters)
    /\ SetCleanupState(register_session(CleanupState, j))
    /\ pc' = [pc EXCEPT ![j] = "get_audio_info"]
    /\ UNCHANGED << active_jobs, job_progress, request, chunk_results, response,
                    cancelVars, notes, delayed_fired >>

(***************************************************************************)
(* An exception inside the `async with` block (lines 953-962): leaving the *)
(* block releases the slot, the handler sets FAILED, and the call suspends *)
(* in notify_job_failed.                                                   *)
(***************************************************************************)
RaiseInJob(j) ==
    /\ sem_value' = release(sem_value)
    /\ job_progress' = [job_progress EXCEPT ![j].status = FAILED]
    /\ notes' = notify_job_failed(notes, j, job_progress[j].progress_percent)
    /\ pc' = [pc EXCEPT ![j] = "notify_job_failed"]
    /\ UNCHANGED << active_jobs, sem_waiters, request, chunk_results, response >>

(***************************************************************************)
(* A notify_* call awaited inside the `async with` block ends: its return  *)
(* value is dropped by transcribe_file, which goes on with Continue; an    *)
(* exception leaving the notifier would reach `except Exception`.  The     *)
(* receiver's answer is one of `outcomes`.                                 *)
(***************************************************************************)
AwaitNotifier(j, outcomes, Continue) ==
    \E outcome \in outcomes :
        /\ notify_ok' = NotifyDelivered(outcome)
        /\ IF NotifierRaises(outcome)
           THEN /\ RaiseInJob(j)
                /\ UNCHANGED << cancelVars, cleanupVars, disk >>
           ELSE Continue

(***************************************************************************)
(* Lines 911-944, after the chunk loop: the status becomes COMPLETED       *)
(* unless it is CANCELLED, the response is built from all_segments, and    *)
(* the call suspends in notify_job_completed.                              *)
(***************************************************************************)
FinalizeTranscription(j) ==
    LET st == IF job_progress[j].status # CANCELLED
              THEN COMPLETED ELSE job_progress[j].status
    IN  /\ job_progress' = [job_progress EXCEPT ![j] =
                IF job_progress[j].status # CANCELLED
                THEN [@ EXCEPT !.status = COMPLETED,
                               !.progress_percent = PctHundred]
                ELSE @]
        /\ response' = [response EXCEPT ![j] =
                [status |-> st,
                 segments |-> SegmentCount(chunk_results[j]),
                 chunk_count |-> Len(chunk_results[j]),
                 returned |-> FALSE]]
        /\ notes' = notify_job_completed(notes, j)
        /\ pc' = [pc EXCEPT ![j] = "notify_job_completed"]
        /\ UNCHANGED << active_jobs, sem_value, sem_waiters, request,
                        chunk_results >>

(***************************************************************************)
(* get_audio_info returns (lines 830-853): total_chunks is set and the     *)
(* call suspends in notify_job_started; or the file cannot be decoded.     *)
(***************************************************************************)
GetAudioInfo(j) ==
    /\ pc[j] = "get_audio_info"
    /\ \/ /\ job_progress' = [job_progress EXCEPT
                                  ![j].total_chunks = EstimatedChunks(request[j])]
          /\ notes' = notify_job_started(notes, j)
          /\ pc' = [pc EXCEPT ![j] = "notify_job_started"]
          /\ UNCHANGED << active_jobs, sem_value, sem_waiters, request,
                          chunk_results, response >>
       \/ RaiseInJob(j)
    /\ UNCHANGED << cancelVars, cleanupVars, disk >>

(***************************************************************************)
(* notify_job_started returns; the loop asks the chunker for its first     *)
(* chunk: process_large_file creates its directory and saves the upload    *)
(* (lines 50-57 of audio_processor.py).                                    *)
(***************************************************************************)
NotifyJobStartedReturns(j, outcomes) ==
    /\ pc[j] = "notify_job_started"
    /\ AwaitNotifier(j, outcomes,
          /\ pc' = [pc EXCEPT ![j] = "next_chunk"]
          /\ disk' = disk \cup {ProcessorDir(j)}
          /\ UNCHANGED << engineVars, request, chunk_results, response,
                          cancelVars, notes, cleanupVars >>)

(***************************************************************************)
(* _transcribe_chunk (lines 1215-1287): the ChunkResult of a transcription *)
(* that returned text, with status COMPLETED and its segment; the one of a *)
(* transcription that returned no text, with status COMPLETED and no       *)
(* segment; and the one built by `except Exception`, with status FAILED,   *)
(* no segment and the message.  runtime_failed is no field of ChunkResult: *)
(* it records that the runtime raised while the chunk was transcribed.     *)
(***************************************************************************)
ChunkCompleted ==
    [status |-> COMPLETED, segments |-> 1, error_message |-> "none",
     runtime_failed |-> FALSE]
ChunkEmpty ==
    [status |-> COMPLETED, segments |-> 0, error_message |-> "none",
     runtime_failed |-> TRUE]
ChunkFailed ==
    [status |-> FAILED, segments |-> 0, error_message |-> "error",
     runtime_failed |-> TRUE]

(***************************************************************************)
(* What happens to a chunk in _transcribe_audio_internal (lines 299-347):  *)
(* "text": the inference returns text.  "fallback": the inference raises   *)
(* inside _transcribe_pytorch, whose `except Exception` (lines 710-718)    *)
(* returns the fallback result with text "" (a failure of the MLX path     *)
(* falls back to _transcribe_pytorch, lines 579-586).  "raises": the       *)
(* method itself raises (no model loaded, line 310; _prepare_audio, line   *)
(* 316, re-raised at 345-347).                                             *)
(***************************************************************************)
InferenceOutcomes == {"text", "fallback", "raises"}

_transcribe_chunk(outcome) ==
    IF outcome = "raises" THEN ChunkFailed
    ELSE IF outcome = "fallback" THEN ChunkEmpty
    ELSE ChunkCompleted

(***************************************************************************)
(* Lines 870-900, from the return of _transcribe_chunk: the result is      *)
(* appended to chunk_results whatever its status, progress is updated and  *)
(* the call suspends in notify_chunk_completed.                            *)
(***************************************************************************)
RecordChunkResult(j, result) ==
    LET completed_chunks == Len(chunk_results[j]) + 1
    IN  /\ chunk_results' = [chunk_results EXCEPT ![j] = Append(@, result)]
        /\ job_progress' = [job_progress EXCEPT
                ![j].progress_percent =
                    Pct(completed_chunks, job_progress[j].total_chunks),
                ![j].current_chunk = completed_chunks]
        /\ notes' = notify_chunk_completed(notes, j, completed_chunks - 1,
                                           job_progress[j].total_chunks)
        /\ pc' = [pc EXCEPT ![j] = "notify_chunk_completed"]
        /\ finished_after_cancel' =
               BumpIf(cancel_returned[j], finished_after_cancel, j)

(***************************************************************************)
(* The chunker answers (lines 859-870).  It yields the next chunk: the     *)
(* loop breaks if the job was cancelled, else _transcribe_chunk starts; it *)
(* suspends in the inference thread, or, with no model loaded, fails at    *)
(* line 310 before it suspends.  Or the chunker is exhausted, or it        *)
(* raises; in each case where the generator ends its finally block removes *)
(* its files.                                                              *)
(***************************************************************************)
NextChunk(j) ==
    /\ pc[j] = "next_chunk"
    /\ \/ /\ Len(chunk_results[j]) < Len(JobChunks(j))
          /\ ~JobWasCancelled(j)
          /\ started_after_cancel' =
                 BumpIf(cancel_returned[j], started_after_cancel, j)
          /\ IF is_loaded
             THEN /\ pc' = [pc EXCEPT ![j] = "_transcribe_chunk"]
                  /\ UNCHANGED << job_progress, chunk_results, notes,
                                  finished_after_cancel >>
             ELSE RecordChunkResult(j, ChunkFailed)
          /\ UNCHANGED << active_jobs, sem_value, sem_waiters, request,
                          response, disk, cancel_pc, cancel_calls,
                          cancel_returned >>
       \/ /\ \/ Len(chunk_results[j]) < Len(JobChunks(j)) /\ JobWasCancelled(j)
             \/ Len(chunk_results[j]) = Len(JobChunks(j))
          /\ FinalizeTranscription(j)
          /\ disk' = disk \ {ProcessorDir(j)}
          /\ UNCHANGED cancelVars
       \/ /\ RaiseInJob(j)
          /\ disk' = disk \ {ProcessorDir(j)}
          /\ UNCHANGED cancelVars
    /\ UNCHANGED cleanupVars

(***************************************************************************)
(* _transcribe_chunk returns (lines 870-900): a ChunkResult with status    *)
(* COMPLETED and its segments, or, when the runtime failed, with status    *)
(* FAILED and no segment.  Progress is updated and the call suspends in    *)
(* notify_chunk_completed.                                                 *)
(***************************************************************************)
TranscribeChunkReturns(j, inferences) ==
    /\ pc[j] = "_transcribe_chunk"
    /\ \E outcome \in inferences :
          RecordChunkResult(j, _transcribe_chunk(outcome))
    /\ UNCHANGED << active_jobs, sem_value, sem_waiters, request, response,
                    cancel_pc, cancel_calls, cancel_returned,
                    started_after_cancel, cleanupVars, disk >>

(***************************************************************************)
(* notify_chunk_completed returns (line 902): the session's activity is    *)
(* recorded and the loop asks the chunker for the next chunk.              *)
(***************************************************************************)
NotifyChunkCompletedReturns(j, outcomes) ==
    /\ pc[j] = "notify_chunk_completed"
    /\ AwaitNotifier(j, outcomes,
          /\ SetCleanupState(update_session_activity(CleanupState, j))
          /\ pc' = [pc EXCEPT ![j] = "next_chunk"]
          /\ UNCHANGED << engineVars, request, chunk_results, response,
                          cancelVars, notes, delayed_fired >>)

(***************************************************************************)
(* notify_job_completed returns (lines 946-951, 970-972): the delayed      *)
(* cleanup is scheduled, the response is returned, the slot is released    *)
(* and the job leaves active_jobs.                                         *)
(***************************************************************************)
NotifyJobCompletedReturns(j, outcomes) ==
    /\ pc[j] = "notify_job_completed"
    /\ AwaitNotifier(j, outcomes,
          /\ SetCleanupState(schedule_delayed_cleanup(CleanupState, j))
          /\ response' = [response EXCEPT ![j].returned = TRUE]
          /\ sem_value' = release(sem_value)
          /\ active_jobs' = active_jobs_pop(active_jobs, j)
          /\ pc' = [pc EXCEPT ![j] = "done"]
          /\ UNCHANGED << job_progress, sem_waiters, request, chunk_results,
                          cancelVars, notes, delayed_fired >>)

(***************************************************************************)
(* notify_job_failed returns (lines 964-972): the session is force-cleaned,*)
(* the exception is re-raised and the job leaves active_jobs.              *)
(***************************************************************************)
NotifyJobFailedReturns(j, outcomes) ==
    /\ pc[j] = "notify_job_failed"
    /\ \E outcome \in outcomes : notify_ok' = NotifyDelivered(outcome)
    /\ SetCleanupState(cleanup_session(CleanupState, j, TRUE))
    /\ active_jobs' = active_jobs_pop(active_jobs, j)
    /\ pc' = [pc EXCEPT ![j] = "done"]
    /\ UNCHANGED << job_progress, sem_value, sem_waiters, request,
                    chunk_results, response, cancelVars, notes, delayed_fired >>

\* the cancel_job calls made so far for the jobs of S
RECURSIVE CancelCallsMade(_)
CancelCallsMade(S) ==
    IF S = {} THEN 0
    ELSE LET j == CHOOSE x \in S : TRUE
         IN  cancel_calls[j] + CancelCallsMade(S \ {j})

(***************************************************************************)
(* cancel_job (lines 1003-1007): for a job in active_jobs the status is    *)
(* set to CANCELLED and the call suspends in notify_job_cancelled.         *)
(***************************************************************************)
CancelJob(j) ==
    /\ cancel_pc[j] = "idle"
    /\ CancelCallsMade(Jobs) < MaxCancelCalls
    /\ j \in active_jobs
    /\ job_progress' = [job_progress EXCEPT ![j].status = CANCELLED]
    /\ notes' = notify_job_cancelled(notes, j)
    /\ cancel_pc' = [cancel_pc EXCEPT ![j] = "notify_job_cancelled"]
    /\ cancel_calls' = [cancel_calls EXCEPT ![j] = @ + 1]
    /\ UNCHANGED << active_jobs, sem_value, sem_waiters, callVars,
                    cancel_returned, started_after_cancel,
                    finished_after_cancel, cleanupVars, disk >>

(***************************************************************************)
(* cancel_job (lines 1009-1011): notify_job_cancelled returns, the session *)
(* is force-cleaned and the call returns True.                             *)
(***************************************************************************)
CancelJobReturns(j, outcomes) ==
    /\ cancel_pc[j] = "notify_job_cancelled"
    /\ \E outcome \in outcomes : notify_ok' = NotifyDelivered(outcome)
    /\ SetCleanupState(cleanup_session(CleanupState, j, TRUE))
    /\ cancel_pc' = [cancel_pc EXCEPT ![j] = "idle"]
    /\ cancel_returned' = [cancel_returned EXCEPT ![j] = TRUE]
    /\ UNCHANGED << engineVars, callVars, cancel_calls, started_after_cancel,
                    finished_after_cancel, notes, delayed_fired >>

DelayedCleanupFires(j) == delayed_cleanup(j)


(***************************************************************************)
(* reload (lines 1103-1117): the model is dropped and is_loaded cleared,   *)
(* whatever jobs are in active_jobs, and the call suspends in initialize,  *)
(* where the loader runs.  The /reload endpoint calls it unconditionally.  *)
(***************************************************************************)
Reload ==
    /\ reload_pc = "idle"
    /\ reload_calls < MaxReloadCalls
    /\ is_loaded' = FALSE
    /\ reload_pc' = "initialize"
    /\ reload_calls' = reload_calls + 1

(***************************************************************************)
(* initialize (lines 127-149) after the loader returned a model: model and *)
(* processor are stored and is_loaded is set.                              *)
(***************************************************************************)
ReloadInitialized ==
    /\ reload_pc = "initialize"
    /\ is_loaded' = TRUE
    /\ reload_pc' = "idle"
    /\ UNCHANGED reload_calls

ReloadIdle ==
    /\ is_loaded = TRUE
    /\ reload_pc = "idle"
    /\ reload_calls = 0

(***************************************************************************)
(* The service after start-up: no job, every slot free, no session.        *)
(***************************************************************************)
JobInit ==
    /\ active_jobs = {}
    /\ job_progress = [j \in Jobs |-> NoJob]
    /\ sem_value = MaxConcurrentRequests
    /\ sem_waiters = << >>
    /\ pc = [j \in Jobs |-> "idle"]
    /\ request = [j \in Jobs |-> Request(0, 1, 0)]
    /\ chunk_results = [j \in Jobs |-> << >>]
    /\ response = [j \in Jobs |-> NoResponse]
    /\ cancel_pc = [j \in Jobs |-> "idle"]
    /\ cancel_calls = [j \in Jobs |-> 0]
    /\ cancel_returned = [j \in Jobs |-> FALSE]
    /\ started_after_cancel = [j \in Jobs |-> 0]
    /\ finished_after_cancel = [j \in Jobs |-> 0]
    /\ notes = [j \in Jobs |-> << >>]
    /\ active_sessions = {}
    /\ session_last_activity = EmptyDict
    /\ protected_files = EmptyDict
    /\ cleanup_tasks = EmptyDict
    /\ delayed_fired = {}
    /\ disk = {}
    /\ notify_ok = TRUE

\* the steps of a transcribe_file call and of its session's delayed cleanup
TranscribeFileStep(j, outcomes, inferences) ==
    \/ /\ \/ TranscribeFile(j)
          \/ AcquireSlot(j)
          \/ GetAudioInfo(j)
          \/ NextChunk(j)
          \/ TranscribeChunkReturns(j, inferences)
          \/ DelayedCleanupFires(j)
       /\ UNCHANGED notify_ok
    \/ NotifyJobStartedReturns(j, outcomes)
    \/ NotifyChunkCompletedReturns(j, outcomes)
    \/ NotifyJobCompletedReturns(j, outcomes)
    \/ NotifyJobFailedReturns(j, outcomes)

\* the steps of a cancel_job call
CancelJobStep(j, outcomes) ==
    \/ CancelJob(j) /\ UNCHANGED notify_ok
    \/ CancelJobReturns(j, outcomes)

\* a receiver that answers every POST with 200
ReliableReceiver == {"200"}

\* a runtime whose inference returns text whenever it is reached
SoundInference == {"text", "raises"}

JobNext ==
    \E j \in Jobs :
        \/ TranscribeFileStep(j, ReliableReceiver, SoundInference)
        \/ CancelJobStep(j, ReliableReceiver)


(***************************************************************************)
(* Overlap deduplication (VoxtralEngine._remove_overlap_duplicates).       *)
(*                                                                         *)
(* A text is kept as the sequence of its words, the result of str.split(); *)
(* ' '.join of a word sequence splits back into the same words.  A segment *)
(* is [start, end, text] with times in seconds.                            *)
(***************************************************************************)
MaxWords == 3
MaxSegments == 2

Words == {"a", "b", "A"}

\* str.lower() on a word
Lower(w) == IF w = "A" THEN "a" ELSE IF w = "B" THEN "b" ELSE w
LowerAll(ws) == [i \in DOMAIN ws |-> Lower(ws[i])]

\* words[-n:] and words[:n] for 0 < n <= len(words); words[:-n] and words[n:]
LastWords(ws, n) == SubSeq(ws, Len(ws) - n + 1, Len(ws))
FirstWords(ws, n) == SubSeq(ws, 1, n)
DropLast(ws, n) == SubSeq(ws, 1, Len(ws) - n)
DropFirst(ws, n) == SubSeq(ws, n + 1, Len(ws))

WordSet(ws) == {Lower(ws[i]) : i \in DOMAIN ws}

(***************************************************************************)
(* _calculate_text_similarity(text1, text2) > 0.8, the test of line 450:   *)
(* the Jaccard index of the two lower-cased word sets, 0.0 when either     *)
(* text is empty.                                                          *)
(***************************************************************************)
SimilarityAbove80(ws1, ws2) ==
    /\ ws1 # << >>
    /\ ws2 # << >>
    /\ 5 * Cardinality(WordSet(ws1) \cap WordSet(ws2))
           > 4 * Cardinality(WordSet(ws1) \cup WordSet(ws2))

(***************************************************************************)
(* _find_and_remove_duplicate_text, lines 436-455: is overlap_len a match, *)
(* exactly (ignoring case) or by similarity.                               *)
(***************************************************************************)
OverlapMatches(current_words, next_words, overlap_len) ==
    LET current_ending == LastWords(current_words, overlap_len)
        next_beginning == FirstWords(next_words, overlap_len)
    IN  \/ LowerAll(current_ending) = LowerAll(next_beginning)
        \/ SimilarityAbove80(current_ending, next_beginning)

\* the loop over range(max_overlap, 0, -1): the first length that matches, or 0
RECURSIVE FirstMatchingOverlap(_, _, _)
FirstMatchingOverlap(current_words, next_words, overlap_len) ==
    IF overlap_len <= 0
    THEN 0
    ELSE IF OverlapMatches(current_words, next_words, overlap_len)
         THEN overlap_len
         ELSE FirstMatchingOverlap(current_words, next_words, overlap_len - 1)

MaxOverlapWords == 10

(***************************************************************************)
(* _find_and_remove_duplicate_text(current_text, next_text): None (found   *)
(* is FALSE) or the two cleaned texts.                                     *)
(***************************************************************************)
_find_and_remove_duplicate_text(current_words, next_words) ==
    IF Len(current_words) < 2 \/ Len(next_words) < 2
    THEN [found |-> FALSE]
    ELSE LET max_overlap == Min(Min(Len(current_words) \div 2,
                                    Len(next_words) \div 2), MaxOverlapWords)
             overlap_len ==
                 FirstMatchingOverlap(current_words, next_words, max_overlap)
         IN  IF overlap_len = 0
             THEN [found |-> FALSE]
             ELSE [found |-> TRUE,
                   current |-> DropLast(current_words, overlap_len),
                   next |-> DropFirst(next_words, overlap_len)]

\* lines 375-378: the two segments overlap in time
SegmentsOverlap(current_segment, next_segment, overlap_seconds) ==
    Max(current_segment.start, next_segment.start - overlap_seconds)
        < Min(current_segment.end, next_segment.start + overlap_seconds)

\* a segment rebuilt from times and text alone: confidence is left at 0
WithTextOnly(segment, text) ==
    [ start |-> segment.start, end |-> segment.end, text |-> text,
      confidence |-> 0 ]

\* lines 388-394 and 397-403: the TranscriptionSegment built from a segment
\* and its cleaned text
WithText(segment, text) ==
    [ start |-> segment.start, end |-> segment.end, text |-> text,
      confidence |-> segment.confidence ]

(***************************************************************************)
(* _remove_overlap_duplicates: the while loop of lines 367-406 from index  *)
(* i on; segs is the list being rewritten in place.                        *)
(***************************************************************************)
RECURSIVE RemoveFrom(_, _, _)
RemoveFrom(segs, i, overlap_seconds) ==
    IF i > Len(segs)
    THEN << >>
    ELSE IF i + 1 <= Len(segs)
            /\ SegmentsOverlap(segs[i], segs[i + 1], overlap_seconds)
            /\ _find_and_remove_duplicate_text(segs[i].text, segs[i + 1].text).found
         THEN LET duplicate_removed ==
                      _find_and_remove_duplicate_text(segs[i].text, segs[i + 1].text)
                  current_segment == WithText(segs[i], duplicate_removed.current)
                  updated == [segs EXCEPT ![i + 1] =
                                  WithText(@, duplicate_removed.next)]
              IN  << current_segment >> \o RemoveFrom(updated, i + 1, overlap_seconds)
         ELSE << segs[i] >> \o RemoveFrom(segs, i + 1, overlap_seconds)

_remove_overlap_duplicates(segs, overlap_seconds) ==
    IF Len(segs) < 2 THEN segs ELSE RemoveFrom(segs, 1, overlap_seconds)

(***************************************************************************)
(* Inputs of the deduplication: up to MaxSegments segments of 30 s, each   *)
(* starting 25 s (overlapping) or 50 s (apart) after the one before, with  *)
(* texts of up to MaxWords words; overlap_seconds is 10.  The list is      *)
(* built one segment at a time, as transcribe_file appends to all_segments.*)
(***************************************************************************)
RECURSIVE SeqsUpTo(_, _)
SeqsUpTo(S, n) ==
    IF n = 0 THEN { << >> }
    ELSE LET shorter == SeqsUpTo(S, n - 1)
         IN  shorter \cup { Append(q, x) : q \in {r \in shorter : Len(r) = n - 1},
                                           x \in S }

Texts == SeqsUpTo(Words, MaxWords)

DedupOverlapSeconds == 10

\* confidence scores of segments, in percent
Confidences == { 88, 95 }

VARIABLES
    segments,       \* all_segments handed to _remove_overlap_duplicates
    cleaned,        \* its result
    recleaned,      \* the result of applying it to cleaned
    dedup_pc

dedupVars == << segments, cleaned, recleaned, dedup_pc >>

DedupIdle ==
    /\ segments = << >>
    /\ cleaned = << >>
    /\ recleaned = << >>
    /\ dedup_pc = "idle"

DedupInit ==
    /\ segments = << >>
    /\ cleaned = << >>
    /\ recleaned = << >>
    /\ dedup_pc = "input"

\* transcribe_file, lines 874-882: one more segment in all_segments
AppendSegment ==
    /\ dedup_pc = "input"
    /\ Len(segments) < MaxSegments
    /\ \E t \in Texts, gap \in (IF segments = << >> THEN {0} ELSE {25, 50}),
          confidence \in Confidences :
          LET st == IF segments = << >> THEN 0
                    ELSE segments[Len(segments)].start + gap
          IN  segments' = Append(segments,
                                 [start |-> st, end |-> st + 30, text |-> t,
                                  confidence |-> confidence])
    /\ UNCHANGED << cleaned, recleaned, dedup_pc >>

RemoveOverlapDuplicates ==
    /\ dedup_pc = "input"
    /\ cleaned' = _remove_overlap_duplicates(segments, DedupOverlapSeconds)
    /\ dedup_pc' = "cleaned"
    /\ UNCHANGED << segments, recleaned >>

RemoveOverlapDuplicatesAgain ==
    /\ dedup_pc = "cleaned"
    /\ recleaned' = _remove_overlap_duplicates(cleaned, DedupOverlapSeconds)
    /\ dedup_pc' = "recleaned"
    /\ UNCHANGED << segments, cleaned >>

(***************************************************************************)
(* One notify_job_progress call with its retries                           *)
(* (ProgressNotifier.notify_job_progress, lines 33-108).                   *)
(***************************************************************************)
max_retries == 2
MaxConnectRetries == 1

\* a notifier that repeats the POST after every failure
RetryEveryFailure(outcome, retry_count) == outcome # "200"

\* lines 83 and 99: is the POST repeated after `outcome`, with retry_count
\* retries made so far?
ShouldRetry(outcome, retry_count) ==
    \/ outcome = "5xx" /\ retry_count < max_retries
    \/ outcome = "connect_error" /\ retry_count < MaxConnectRetries

\* the payloads of the notify_* methods
Payloads ==
    { Notification("started", PctZero), Notification("processing", Pct(1, 2)),
      Notification("completed", PctHundred), Notification("failed", Pct(1, 2)),
      Notification("cancelled", PctZero) }

VARIABLES
    notifier_pc,        \* where the call is: "idle", "post", "sleep", "returned"
    progress_data,      \* its payload
    retry_count,        \* its retry_count argument
    attempts,           \* the outcomes of the POSTs made, in order
    notifier_result     \* the value it returned

notifierVars ==
    << notifier_pc, progress_data, retry_count, attempts, notifier_result >>

NotifierIdle ==
    /\ notifier_pc = "idle"
    /\ progress_data = Notification("started", PctZero)
    /\ retry_count = 0
    /\ attempts = << >>
    /\ notifier_result = "none"

\* lines 51-74: a disabled notifier returns False; else the POST is issued
NotifyJobProgress ==
    /\ notifier_pc = "idle"
    /\ \E note \in Payloads : progress_data' = note
    /\ IF NotificationsEnabled
       THEN notifier_pc' = "post" /\ UNCHANGED notifier_result
       ELSE notifier_pc' = "returned" /\ notifier_result' = FALSE
    /\ UNCHANGED << retry_count, attempts >>

\* lines 76-108: the POST ends; the call returns, or sleeps before a retry
PostEnds ==
    /\ notifier_pc = "post"
    /\ \E outcome \in ReceiverOutcomes :
          /\ attempts' = Append(attempts, outcome)
          /\ IF ShouldRetry(outcome, retry_count)
             THEN notifier_pc' = "sleep" /\ UNCHANGED notifier_result
             ELSE /\ notifier_pc' = "returned"
                  /\ notifier_result' = NotifyDelivered(outcome)
    /\ UNCHANGED << progress_data, retry_count >>

\* lines 85-86 and 101-102: after the sleep the method calls itself with
\* retry_count + 1 and posts again
RetryNotification ==
    /\ notifier_pc = "sleep"
    /\ retry_count' = retry_count + 1
    /\ notifier_pc' = "post"
    /\ UNCHANGED << progress_data, attempts, notifier_result >>

(***************************************************************************)
(* The chunker on its own: a request, the chunks process_large_file yields *)
(* for it and the total_chunks transcribe_file computes for it.            *)
(***************************************************************************)
MaxDurationSteps == 260

ChunkerRequests ==
    { Request(n * 500, c, o) :
        n \in 1..MaxDurationSteps, c \in {1, 2}, o \in {0, 3, 30} }

VARIABLES
    chunker_request,
    chunker_chunks,         \* the chunks emitted
    chunker_total,          \* job_progress.total_chunks
    chunker_pc

chunkerVars == << chunker_request, chunker_chunks, chunker_total, chunker_pc >>

ChunkerIdle ==
    /\ chunker_request = Request(0, 1, 0)
    /\ chunker_chunks = << >>
    /\ chunker_total = 0
    /\ chunker_pc = "idle"

ChunkerInit ==
    /\ chunker_request \in ChunkerRequests
    /\ chunker_chunks = << >>
    /\ chunker_total = 0
    /\ chunker_pc = "input"

ProcessLargeFile ==
    /\ chunker_pc = "input"
    /\ chunker_chunks' = process_large_file(chunker_request)
    /\ chunker_total' = EstimatedChunks(chunker_request)
    /\ chunker_pc' = "done"
    /\ UNCHANGED chunker_request

(***************************************************************************)
(* The cleanup service called by any client (CleanupService, lines 53-147).*)
(* cleanup_call is the last call made and what it returned; pending_tasks  *)
(* counts, for each session, the delayed_cleanup tasks that were created   *)
(* and have neither finished nor been cancelled.                           *)
(***************************************************************************)
MaxCleanupCalls == 5
SessionFileNames == { "original", "chunk_0000" }

VARIABLES
    cleanup_call,
    pending_tasks

cleanupCallVars == << cleanup_call, pending_tasks >>

CleanupCall(op, session_id, force, result) ==
    [ op |-> op, session_id |-> session_id, force |-> force, result |-> result,
      n |-> cleanup_call.n + 1 ]

CleanupCallsIdle ==
    /\ cleanup_call = [ op |-> "none", session_id |-> 0, force |-> FALSE,
                        result |-> 0, n |-> 0 ]
    /\ pending_tasks = [ sid \in Jobs |-> 0 ]

\* the task of the session in the dictionary is waiting in its sleep
TaskSleeping(cs, sid) ==
    /\ sid \in DOMAIN cs.cleanup_tasks
    /\ cs.cleanup_tasks[sid] = "sleeping"

RegisterSessionCall(sid) ==
    /\ cleanup_call.n < MaxCleanupCalls
    /\ sid \notin active_sessions
    /\ SetCleanupState(register_session(CleanupState, sid))
    /\ cleanup_call' = CleanupCall("register_session", sid, FALSE, 0)
    /\ UNCHANGED << pending_tasks, delayed_fired >>

\* a client saves a file in the directory of the session
WriteSessionFile(sid, name) ==
    /\ SessionFile(sid, name) \notin disk
    /\ disk' = disk \cup { SessionDir(sid), SessionFile(sid, name) }
    /\ UNCHANGED << cleanupVars, cleanupCallVars >>

ProtectFileCall(sid, name) ==
    /\ cleanup_call.n < MaxCleanupCalls
    /\ SetCleanupState(protect_file(CleanupState, sid, SessionFile(sid, name)))
    /\ cleanup_call' = CleanupCall("protect_file", sid, FALSE, 0)
    /\ UNCHANGED << pending_tasks, delayed_fired >>

UpdateSessionActivityCall(sid) ==
    /\ cleanup_call.n < MaxCleanupCalls
    /\ SetCleanupState(update_session_activity(CleanupState, sid))
    /\ cleanup_call' = CleanupCall("update_session_activity", sid, FALSE, 0)
    /\ UNCHANGED << pending_tasks, delayed_fired >>

\* schedule_delayed_cleanup (122-147); it has no suspension point
ScheduleDelayedCleanupCall(sid) ==
    /\ cleanup_call.n < MaxCleanupCalls
    /\ SetCleanupState(schedule_delayed_cleanup(CleanupState, sid))
    /\ pending_tasks' =
          [ pending_tasks EXCEPT ![sid] =
              IF CancelsExistingTask(CleanupState, sid) /\ TaskSleeping(CleanupState, sid)
              THEN @ ELSE @ + 1 ]
    /\ cleanup_call' =
          CleanupCall("schedule_delayed_cleanup", sid, FALSE,
                      IF TaskSleeping(CleanupState, sid) THEN 1 ELSE 0)
    /\ UNCHANGED delayed_fired

\* cleanup_session (71-120): a call that is not refused pops the task of
\* the session and cancels it if it is not done
CleanupSessionCall(sid, force) ==
    /\ cleanup_call.n < MaxCleanupCalls
    /\ SetCleanupState(cleanup_session(CleanupState, sid, force))
    /\ pending_tasks' =
          [ pending_tasks EXCEPT ![sid] =
              IF ~RefusesCleanup(CleanupState, sid, force) /\ TaskSleeping(CleanupState, sid)
              THEN @ - 1 ELSE @ ]
    /\ cleanup_call' =
          CleanupCall("cleanup_session", sid, force,
                      cleaned_count(CleanupState, sid, force))
    /\ UNCHANGED delayed_fired

\* the sleep of the task of a session is over (132-135)
DelayedCleanupTask(sid) ==
    /\ delayed_cleanup(sid)
    /\ pending_tasks' = [ pending_tasks EXCEPT ![sid] = @ - 1 ]
    /\ UNCHANGED cleanup_call

StopCall ==
    /\ cleanup_call.n < MaxCleanupCalls
    /\ SetCleanupState(stop(CleanupState))
    /\ pending_tasks' =
          [ sid \in Jobs |-> IF TaskSleeping(CleanupState, sid)
                             THEN pending_tasks[sid] - 1 ELSE pending_tasks[sid] ]
    /\ cleanup_call' = CleanupCall("stop", 0, FALSE, 0)
    /\ UNCHANGED delayed_fired

CleanupServiceStep ==
    \/ \E sid \in Jobs :
          \/ RegisterSessionCall(sid)
          \/ UpdateSessionActivityCall(sid)
          \/ ScheduleDelayedCleanupCall(sid)
          \/ DelayedCleanupTask(sid)
          \/ \E force \in BOOLEAN : CleanupSessionCall(sid, force)
          \/ \E name \in SessionFileNames :
                \/ WriteSessionFile(sid, name)
                \/ ProtectFileCall(sid, name)
    \/ StopCall

(***************************************************************************)
(* The periodic policies of the cleanup service (lines 149-273).  The      *)
(* clock is an input: `old` is the set of entries of settings.temp_path    *)
(* whose age, by their mtime, exceeds max_age_hours, and `idle` the set of *)
(* sessions whose last activity is more than max_idle_minutes ago.  An     *)
(* entry is a file directly below the temp directory or the directory of   *)
(* a session; every unlink and rmdir succeeds.                             *)
(***************************************************************************)
TopFileNames == { "upload" }
TopFile(name) == << "file", name >>
IsTopFile(path) == path[1] = "file"

\* the sessions whose directory is an entry of the temp directory
SessionDirsOn(paths) == { sid \in Jobs : SessionDir(sid) \in paths }

\* the contents of the directories of the sessions of S go, then the
\* directories (188-196, 264-267)
RECURSIVE RemoveSessionDirs(_, _)
RemoveSessionDirs(paths, S) ==
    IF S = {} THEN paths
    ELSE LET sid == CHOOSE x \in S : TRUE
         IN  RemoveSessionDirs(RemoveSessionDir(paths, sid), S \ {sid})

\* cleanup_old_files (170-212): an old file is unlinked; an old directory
\* is emptied and removed unless its name is in active_sessions
cleanup_old_files(cs, old) ==
    [cs EXCEPT !.disk =
        RemoveSessionDirs({ path \in @ : ~(IsTopFile(path) /\ path \in old) },
                          { sid \in SessionDirsOn(@) :
                                /\ SessionDir(sid) \in old
                                /\ sid \notin cs.active_sessions })]

\* cleanup_inactive_sessions (149-168): every session whose last activity
\* is too long ago is cleaned with force=True
RECURSIVE CleanupSessions(_, _)
CleanupSessions(cs, S) ==
    IF S = {} THEN cs
    ELSE LET sid == CHOOSE x \in S : TRUE
         IN  CleanupSessions(cleanup_session(cs, sid, TRUE), S \ {sid})

cleanup_inactive_sessions(cs, idle) ==
    CleanupSessions(cs, idle \cap DOMAIN cs.session_last_activity)

\* emergency_cleanup (238-273): the sweep with max_age_hours=1, the
\* eviction with max_idle_minutes=5, then every remaining file of the temp
\* directory is unlinked and every directory whose name is not in
\* active_sessions is emptied and removed
emergency_cleanup(cs, old, idle) ==
    LET swept == cleanup_inactive_sessions(cleanup_old_files(cs, old), idle)
    IN  [swept EXCEPT !.disk =
            RemoveSessionDirs({ path \in @ : ~IsTopFile(path) },
                              { sid \in SessionDirsOn(@) :
                                    sid \notin swept.active_sessions })]

\* the entries of the temp directory that can be old
TopEntries == { path \in disk : IsTopFile(path) \/ Len(path) = 2 }

\* the tasks that a call taking the service from cs to cs2 cancelled
PendingAfter(cs, cs2) ==
    [ sid \in Jobs |->
        IF TaskSleeping(cs, sid) /\ ~TaskSleeping(cs2, sid)
        THEN pending_tasks[sid] - 1 ELSE pending_tasks[sid] ]

\* a client saves a file directly below the temp directory
WriteTopFile(name) ==
    /\ TopFile(name) \notin disk
    /\ disk' = disk \cup { TopFile(name) }
    /\ UNCHANGED << cleanupVars, cleanupCallVars >>

\* protect_file takes any path: here one directly below the temp directory
ProtectTopFileCall(sid, name) ==
    /\ cleanup_call.n < MaxCleanupCalls
    /\ SetCleanupState(protect_file(CleanupState, sid, TopFile(name)))
    /\ cleanup_call' = CleanupCall("protect_file", sid, FALSE, 0)
    /\ UNCHANGED << pending_tasks, delayed_fired >>

CleanupOldFilesCall(old) ==
    /\ cleanup_call.n < MaxCleanupCalls
    /\ SetCleanupState(cleanup_old_files(CleanupState, old))
    /\ cleanup_call' = CleanupCall("cleanup_old_files", 0, FALSE, 0)
    /\ UNCHANGED << pending_tasks, delayed_fired >>

CleanupInactiveSessionsCall(idle) ==
    /\ cleanup_call.n < MaxCleanupCalls
    /\ LET cs == cleanup_inactive_sessions(CleanupState, idle)
       IN  /\ SetCleanupState(cs)
           /\ pending_tasks' = PendingAfter(CleanupState, cs)
    /\ cleanup_call' = CleanupCall("cleanup_inactive_sessions", 0, TRUE, 0)
    /\ UNCHANGED delayed_fired

EmergencyCleanupCall(old, idle) ==
    /\ cleanup_call.n < MaxCleanupCalls
    /\ LET cs == emergency_cleanup(CleanupState, old, idle)
       IN  /\ SetCleanupState(cs)
           /\ pending_tasks' = PendingAfter(CleanupState, cs)
    /\ cleanup_call' = CleanupCall("emergency_cleanup", 0, TRUE, 0)
    /\ UNCHANGED delayed_fired

\* one pass of _background_cleanup_loop (336-361), or the same calls made
\* by the /cleanup endpoint
CleanupPolicyStep ==
    \/ \E old \in SUBSET TopEntries :
          \/ CleanupOldFilesCall(old)
          \/ \E idle \in SUBSET DOMAIN session_last_activity :
                EmergencyCleanupCall(old, idle)
    \/ \E idle \in SUBSET DOMAIN session_last_activity :
          CleanupInactiveSessionsCall(idle)
    \/ \E name \in TopFileNames :
          \/ WriteTopFile(name)
          \/ \E sid \in Jobs : ProtectTopFileCall(sid, name)

(***************************************************************************)
(* The timing of the segments of one job: the chunker's windows become     *)
(* AudioChunks (_process_single_chunk, lines 124-166 of audio_processor.py)*)
(* whose duration is that of the audio after voice-activity trimming;      *)
(* _transcribe_chunk makes one segment [0, chunk.duration] of a chunk with *)
(* text (voxtral_engine.py 1238-1260, 692-698); transcribe_file shifts it  *)
(* by chunk.start_time (873-882) and deduplicates the texts (907-909).     *)
(* Times are in milliseconds.                                              *)
(***************************************************************************)
TimingRequests ==
    { Request(d, 1, o) : d \in { 30000, 60500, 120000 }, o \in { 0, 3 } }

\* _apply_vad (220-239): the audio as it is, or with its silence cut out
\* down to two seconds of speech
VadDurations(window_ms) ==
    IF window_ms > 2000 THEN { window_ms, 2000 } ELSE { window_ms }

\* _process_single_chunk (141-166): start_time is the start of the window,
\* duration the length of the processed audio
AudioChunk(index, window, vad_enabled, vad_ms) ==
    [ index |-> index,
      start_time |-> window.start_ms,
      duration |-> IF vad_enabled THEN vad_ms ELSE window.end_ms - window.start_ms ]

ChunkTexts == { << >>, << "a", "b" >>, << "b", "a" >> }

\* _transcribe_chunk (1238-1260) and lines 873-882: no segment for a chunk
\* without text, else one segment over the whole chunk, shifted by the
\* start of the chunk
AdjustedSegments(chunk, text) ==
    IF text = << >>
    THEN << >>
    ELSE << [ start |-> 0 + chunk.start_time,
              end |-> chunk.duration + chunk.start_time,
              text |-> text,
              confidence |-> 95 ] >>

VARIABLES
    timing_pc,          \* "idle", "chunks", "done"
    timing_request,
    timing_vad,         \* processing_config.vad_enabled
    audio_chunks,       \* the AudioChunks yielded so far
    all_segments,       \* all_segments of transcribe_file
    final_segments      \* the segments of the response

timingVars == << timing_pc, timing_request, timing_vad, audio_chunks,
                 all_segments, final_segments >>

TimingIdle ==
    /\ timing_pc = "idle"
    /\ timing_request = Request(0, 1, 0)
    /\ timing_vad = FALSE
    /\ audio_chunks = << >>
    /\ all_segments = << >>
    /\ final_segments = << >>

\* a job starts
TimingStart ==
    /\ timing_pc = "idle"
    /\ timing_request' \in TimingRequests
    /\ timing_vad' \in BOOLEAN
    /\ timing_pc' = "chunks"
    /\ UNCHANGED << audio_chunks, all_segments, final_segments >>

\* one pass of the loop of lines 859-882
TimingNextChunk ==
    /\ timing_pc = "chunks"
    /\ Len(audio_chunks) < Len(process_large_file(timing_request))
    /\ LET index == Len(audio_chunks)
           window == process_large_file(timing_request)[index + 1]
       IN  \E vad_ms \in VadDurations(window.end_ms - window.start_ms),
              text \in ChunkTexts :
              LET chunk == AudioChunk(index, window, timing_vad, vad_ms)
              IN  /\ audio_chunks' = Append(audio_chunks, chunk)
                  /\ all_segments' = all_segments \o AdjustedSegments(chunk, text)
    /\ UNCHANGED << timing_pc, timing_request, timing_vad, final_segments >>

\* lines 907-909 and the response: the segments after deduplication
TimingFinalize ==
    /\ timing_pc = "chunks"
    /\ Len(audio_chunks) = Len(process_large_file(timing_request))
    /\ final_segments' =
          IF Len(all_segments) > 1
          THEN _remove_overlap_duplicates(all_segments,
                   timing_request.overlap_seconds * MsPerSecond)
          ELSE all_segments
    /\ timing_pc' = "done"
    /\ UNCHANGED << timing_request, timing_vad, audio_chunks, all_segments >>

(***************************************************************************)
(* The token budget of one generate call (_transcribe_pytorch, lines       *)
(* 642-647; the same lines in _transcribe_mlx, 536-540).  The audio is an  *)
(* array of samples at SAMPLE_RATE.                                        *)
(***************************************************************************)
SAMPLE_RATE == 16000
MaxAudioTenths == 4200
SamplesPerTenth == SAMPLE_RATE \div 10

\* estimated_tokens = max(int(audio_duration_seconds * 5), 100)
estimated_tokens(samples) == Max((samples * 5) \div SAMPLE_RATE, 100)

\* mutant of max_tokens: the budget without its cap
UncappedTokens(samples) == estimated_tokens(samples) + 300

\* max_tokens = min(estimated_tokens + 300, 2048)
max_tokens(samples) == Min(estimated_tokens(samples) + 300, 2048)

VARIABLES
    token_pc,           \* "idle", "input", "generate"
    token_audio,        \* len(audio)
    max_new_tokens      \* the budget handed to generate

tokenVars == << token_pc, token_audio, max_new_tokens >>

TokenIdle ==
    /\ token_pc = "idle"
    /\ token_audio = 0
    /\ max_new_tokens = 0

TokenInit ==
    /\ token_pc = "input"
    /\ token_audio \in { n * SamplesPerTenth : n \in 0..MaxAudioTenths }
    /\ max_new_tokens = 0

\* the call reaches model.generate
TranscribePytorch ==
    /\ token_pc = "input"
    /\ max_new_tokens' = max_tokens(token_audio)
    /\ token_pc' = "generate"
    /\ UNCHANGED token_audio

(***************************************************************************)
(* The model loader (app/core/model_loader.py of the v0.5 service).        *)
(* The environment of one load: which optional packages were importable    *)
(* and whether the MPS backend is available.                               *)
(***************************************************************************)
STANDARD == "standard"
ACCELERATE == "accelerate"
MLX == "mlx"
PIPELINE_ONLY == "pipeline_only"
LoadingStrategy == { STANDARD, ACCELERATE, MLX, PIPELINE_ONLY }

ModelType == { "voxtral", "whisper", "unknown" }

LoaderEnvs ==
    [ ACCELERATE_AVAILABLE : BOOLEAN, MLX_AVAILABLE : BOOLEAN,
      mps_available : BOOLEAN ]

\* ModelDetector._supports_accelerate (194-207)
_supports_accelerate(env, model_type) ==
    IF ~env.ACCELERATE_AVAILABLE THEN FALSE
    ELSE model_type \in { "voxtral", "whisper" }

\* ModelDetector._supports_mlx (210-223)
_supports_mlx(env, model_type) ==
    IF ~env.MLX_AVAILABLE THEN FALSE
    ELSE model_type \in { "voxtral", "whisper" }

\* ModelDetector._recommend_strategy (247-259)
_recommend_strategy(env, supports_accelerate, supports_mlx) ==
    IF supports_mlx /\ env.mps_available THEN MLX
    ELSE IF supports_accelerate /\ env.ACCELERATE_AVAILABLE THEN ACCELERATE
    ELSE STANDARD

\* ModelDetector.detect_model_info (128-177); a config that cannot be read
\* gives the safe defaults, which are those of an unknown model type.
detect_model_info(env, model_type) ==
    [ model_type |-> model_type,
      supports_accelerate |-> _supports_accelerate(env, model_type),
      supports_mlx |-> _supports_mlx(env, model_type),
      recommended_strategy |->
          _recommend_strategy(env, _supports_accelerate(env, model_type),
                              _supports_mlx(env, model_type)) ]

AppendIfAbsent(list, s) ==
    IF \E i \in 1..Len(list) : list[i] = s
    THEN list ELSE Append(list, s)

\* ProductionModelLoader._get_loading_strategies (622-643)
_get_loading_strategies(env, model_info) ==
    LET s1 == << model_info.recommended_strategy >>
        s2 == IF env.ACCELERATE_AVAILABLE /\ model_info.supports_accelerate
              THEN AppendIfAbsent(s1, ACCELERATE) ELSE s1
        s3 == IF env.MLX_AVAILABLE /\ model_info.supports_mlx
              THEN AppendIfAbsent(s2, MLX) ELSE s2
    IN  AppendIfAbsent(s3, STANDARD)

\* What one loader does: it returns a successful result, returns a failed
\* result, or raises.
LoaderOutcomes == { "success", "failure", "exception" }

\* mutant of LoaderSucceeded: no loader result counts as a success
LoaderNeverSucceeds(outcome) == FALSE

\* `if result.success` (line 594)
LoaderSucceeded(outcome) == outcome = "success"

\* The LoadingResult of the loader of one strategy (404-428, 493-517, 538-558)
\* Its warnings are those of the loader object itself, which is created for
\* this one strategy (306-310, 645-652): only the MLX loader adds one, about
\* its own strategy (534, 542).
LoaderResult(strategy, outcome) ==
    [ success |-> outcome = "success",
      strategy_used |-> strategy,
      error_message |-> IF outcome = "success" THEN "none" ELSE strategy,
      warnings |-> IF strategy = MLX THEN { MLX } ELSE { } ]

\* The LoadingResult when the list is exhausted (610-620)
AllStrategiesFailed(last_error) ==
    [ success |-> FALSE,
      strategy_used |-> STANDARD,
      error_message |-> "All loading strategies failed. Last error: " \o last_error,
      warnings |-> { } ]

NoLoadingResult ==
    [ success |-> FALSE, strategy_used |-> "none", error_message |-> "none",
      warnings |-> { } ]

VARIABLES
    loader_pc,          \* "idle", "trying", "returned"
    loader_env,
    strategies,         \* the ordered list of load_model
    attempted,          \* the loaders run so far and what each did
    loading_result      \* what load_model returned

loaderVars == << loader_pc, loader_env, strategies, attempted, loading_result >>

LoaderIdle ==
    /\ loader_pc = "idle"
    /\ loader_env = [ ACCELERATE_AVAILABLE |-> FALSE, MLX_AVAILABLE |-> FALSE,
                      mps_available |-> FALSE ]
    /\ strategies = << >>
    /\ attempted = << >>
    /\ loading_result = NoLoadingResult

\* load_model up to the first loader (573-586)
LoadModel ==
    /\ loader_pc = "idle"
    /\ \E env \in LoaderEnvs, model_type \in ModelType :
          /\ loader_env' = env
          /\ strategies' =
                 _get_loading_strategies(env, detect_model_info(env, model_type))
    /\ attempted' = << >>
    /\ loader_pc' = "trying"
    /\ UNCHANGED loading_result

\* One pass of the loop (586-606) and, after the last strategy, the
\* failure return (608-620).
AttemptStrategy ==
    /\ loader_pc = "trying"
    /\ \E outcome \in LoaderOutcomes :
          LET strategy == strategies[Len(attempted) + 1]
          IN  /\ attempted' = Append(attempted,
                                     [ strategy |-> strategy, outcome |-> outcome ])
              /\ IF LoaderSucceeded(outcome)
                 THEN /\ loading_result' = LoaderResult(strategy, outcome)
                      /\ loader_pc' = "returned"
                 ELSE IF Len(attempted) + 1 = Len(strategies)
                 THEN /\ loading_result' = AllStrategiesFailed(strategy)
                      /\ loader_pc' = "returned"
                 ELSE /\ loader_pc' = "trying"
                      /\ UNCHANGED loading_result
    /\ UNCHANGED << loader_env, strategies >>

(***************************************************************************)
(* ResourceMonitor (resource_monitor.py).  A sample is the record          *)
(* get_system_metrics returns, in whole GB and percent; the limits         *)
(* MAX_MEMORY_GB and MAX_CPU_PERCENT and the switch                        *)
(* EMERGENCY_SHUTDOWN_ENABLED are settings of the service.  The monitor    *)
(* thread is at the head of its loop ("loop"), between the sample and the  *)
(* check ("check"), in time.sleep ("sleep"), or has left monitor_loop      *)
(* ("ended"); "none" before the first start.                               *)
(***************************************************************************)
MAX_MEMORY_GB == 8
MAX_CPU_PERCENT == 90
GPU_MEMORY_LIMIT_GB == 4
MaxMonitorStarts == 2

Samples ==
    [ memory_gb : { MAX_MEMORY_GB, MAX_MEMORY_GB + 1 },
      gpu_memory_gb : { GPU_MEMORY_LIMIT_GB, GPU_MEMORY_LIMIT_GB + 1 },
      cpu_percent : { MAX_CPU_PERCENT, MAX_CPU_PERCENT + 1 } ]

NoSample == [ memory_gb |-> 0, gpu_memory_gb |-> 0, cpu_percent |-> 0 ]

\* check_safety_limits (91-113): True when no limit is exceeded
check_safety_limits(metrics) ==
    ~ \/ metrics.memory_gb > MAX_MEMORY_GB
      \/ metrics.gpu_memory_gb > GPU_MEMORY_LIMIT_GB
      \/ metrics.cpu_percent > MAX_CPU_PERCENT

VARIABLES
    monitoring,                 \* self.monitoring
    monitor_pc,                 \* where the monitor thread is
    current_metrics,            \* the last sample
    emergency_triggered,        \* current_metrics["emergency_triggered"]
    shutdown_callback,          \* a callback is registered
    callback_calls,             \* calls of the callback so far
    process_alive,              \* os._exit has not been called
    EMERGENCY_SHUTDOWN_ENABLED, \* the setting
    monitor_starts              \* start_monitoring calls that started a thread

monitorVars == << monitoring, monitor_pc, current_metrics, emergency_triggered,
                  shutdown_callback, callback_calls, process_alive,
                  EMERGENCY_SHUTDOWN_ENABLED, monitor_starts >>

MonitorConstructed ==
    /\ monitoring = FALSE
    /\ monitor_pc = "none"
    /\ current_metrics = NoSample
    /\ emergency_triggered = FALSE
    /\ shutdown_callback = FALSE
    /\ callback_calls = 0
    /\ process_alive = TRUE
    /\ monitor_starts = 0

MonitorIdle == MonitorConstructed /\ EMERGENCY_SHUTDOWN_ENABLED = FALSE
MonitorInit == MonitorConstructed /\ EMERGENCY_SHUTDOWN_ENABLED \in BOOLEAN

\* set_shutdown_callback (41-43)
SetShutdownCallback ==
    /\ process_alive
    /\ ~shutdown_callback
    /\ shutdown_callback' = TRUE
    /\ UNCHANGED << monitoring, monitor_pc, current_metrics, emergency_triggered,
                    callback_calls, process_alive, EMERGENCY_SHUTDOWN_ENABLED,
                    monitor_starts >>

\* start_monitoring (170-179): nothing happens while self.monitoring is
\* set; else the flag is set and a thread running monitor_loop is started.
\* A start is modelled when no earlier thread is still in its loop.
StartMonitoring ==
    /\ process_alive
    /\ ~monitoring
    /\ monitor_pc \in { "none", "ended" }
    /\ monitor_starts < MaxMonitorStarts
    /\ monitoring' = TRUE
    /\ monitor_pc' = "loop"
    /\ monitor_starts' = monitor_starts + 1
    /\ UNCHANGED << current_metrics, emergency_triggered, shutdown_callback,
                    callback_calls, process_alive, EMERGENCY_SHUTDOWN_ENABLED >>

\* stop_monitoring (181-186)
StopMonitoring ==
    /\ process_alive
    /\ monitoring
    /\ monitoring' = FALSE
    /\ UNCHANGED << monitor_pc, current_metrics, emergency_triggered,
                    shutdown_callback, callback_calls, process_alive,
                    EMERGENCY_SHUTDOWN_ENABLED, monitor_starts >>

\* monitor_loop, lines 144-148: the loop condition, then a sample
MonitorSample ==
    /\ process_alive
    /\ monitor_pc = "loop"
    /\ IF monitoring
       THEN /\ \E metrics \in Samples : current_metrics' = metrics
            /\ monitor_pc' = "check"
       ELSE /\ monitor_pc' = "ended"
            /\ UNCHANGED current_metrics
    /\ UNCHANGED << monitoring, emergency_triggered, shutdown_callback,
                    callback_calls, process_alive, EMERGENCY_SHUTDOWN_ENABLED,
                    monitor_starts >>

\* emergency_shutdown (115-138): the flag is set, the callback is called if
\* one is registered, and the process exits if the setting says so
emergency_shutdown ==
    /\ emergency_triggered' = TRUE
    /\ callback_calls' = IF shutdown_callback THEN callback_calls + 1
                         ELSE callback_calls
    /\ process_alive' = ~EMERGENCY_SHUTDOWN_ENABLED

\* monitor_loop, lines 159-164: the check; a sample over a limit calls
\* emergency_shutdown and then leaves the loop by `break`
MonitorCheck ==
    /\ process_alive
    /\ monitor_pc = "check"
    /\ IF check_safety_limits(current_metrics)
       THEN /\ monitor_pc' = "sleep"
            /\ UNCHANGED << emergency_triggered, callback_calls, process_alive >>
       ELSE /\ emergency_shutdown
            /\ monitor_pc' = "ended"
    /\ UNCHANGED << monitoring, current_metrics, shutdown_callback,
                    EMERGENCY_SHUTDOWN_ENABLED, monitor_starts >>

\* time.sleep(MEMORY_CHECK_INTERVAL) is over (164)
MonitorWakes ==
    /\ process_alive
    /\ monitor_pc = "sleep"
    /\ monitor_pc' = "loop"
    /\ UNCHANGED << monitoring, current_metrics, emergency_triggered,
                    shutdown_callback, callback_calls, process_alive,
                    EMERGENCY_SHUTDOWN_ENABLED, monitor_starts >>

\* the steps of the monitor thread
monitor_loop ==
    \/ MonitorSample
    \/ MonitorCheck
    \/ MonitorWakes

vars == << serviceVars, dedupVars, chunkerVars, notifierVars, loaderVars, cleanupCallVars, timingVars, tokenVars, monitorVars >>

\* the service after start-up, with nothing going on
ServiceIdle == JobInit /\ ReloadIdle

Init == ServiceIdle /\ DedupIdle /\ ChunkerIdle /\ NotifierIdle /\ LoaderIdle /\ CleanupCallsIdle /\ TimingIdle /\ TokenIdle /\ MonitorIdle
Next == JobNext /\ UNCHANGED << reloadVars, dedupVars, chunkerVars, notifierVars, loaderVars, cleanupCallVars, timingVars, tokenVars, monitorVars >>
Spec == Init /\ [][Next]_vars

\* jobs together with reload calls
ReloadNext ==
    /\ \/ JobNext /\ UNCHANGED reloadVars
       \/ Reload /\ UNCHANGED << jobVars, notify_ok >>
       \/ ReloadInitialized /\ UNCHANGED << jobVars, notify_ok >>
    /\ UNCHANGED << dedupVars, chunkerVars, notifierVars, loaderVars, cleanupCallVars, timingVars, tokenVars, monitorVars >>
ReloadSpec == Init /\ [][ReloadNext]_vars

\* transcribe_file calls with a receiver and a runtime that may fail
UnreliableNext ==
    /\ \E j \in Jobs :
          TranscribeFileStep(j, ReceiverOutcomes, InferenceOutcomes)
    /\ UNCHANGED << cancel_pc, cancel_calls, cancel_returned, reloadVars,
                    dedupVars, chunkerVars, notifierVars, loaderVars, cleanupCallVars, timingVars, tokenVars, monitorVars >>
UnreliableSpec == Init /\ [][UnreliableNext]_vars

(***************************************************************************)
(* The steps by which a submitted transcribe_file call goes on: the slot   *)
(* it queues for is granted, and each decoder, chunker, runtime and        *)
(* notifier call it awaits returns.  The event loop runs every task that   *)
(* is ready, and asyncio.Semaphore wakes its waiters in FIFO order; so     *)
(* each call's steps are taken under weak fairness.                        *)
(***************************************************************************)
JobGoesOn(j) ==
    /\ \/ /\ \/ AcquireSlot(j)
             \/ GetAudioInfo(j)
             \/ NextChunk(j)
             \/ TranscribeChunkReturns(j, SoundInference)
          /\ UNCHANGED notify_ok
       \/ NotifyJobStartedReturns(j, ReliableReceiver)
       \/ NotifyChunkCompletedReturns(j, ReliableReceiver)
       \/ NotifyJobCompletedReturns(j, ReliableReceiver)
       \/ NotifyJobFailedReturns(j, ReliableReceiver)
    /\ UNCHANGED << reloadVars, dedupVars, chunkerVars, notifierVars, loaderVars,
                    cleanupCallVars, timingVars, tokenVars, monitorVars >>

\* calls are submitted at any time and cancelled at any time, up to
\* MaxLiveCancelCalls cancel_job calls; the delayed cleanup, which runs
\* 300 s after a call has returned, is left out
MaxLiveCancelCalls == 1

LiveNext ==
    \/ \E j \in Jobs : JobGoesOn(j)
    \/ /\ \E j \in Jobs :
             \/ TranscribeFile(j) /\ UNCHANGED notify_ok
             \/ /\ CancelCallsMade(Jobs) < MaxLiveCancelCalls
                /\ CancelJob(j)
                /\ UNCHANGED notify_ok
             \/ CancelJobReturns(j, ReliableReceiver)
       /\ UNCHANGED << reloadVars, dedupVars, chunkerVars, notifierVars,
                       loaderVars, cleanupCallVars, timingVars, tokenVars, monitorVars >>

LiveSpec == Init /\ [][LiveNext]_vars /\ \A j \in Jobs : WF_vars(JobGoesOn(j))

DedupSpecInit == DedupInit /\ ServiceIdle /\ ChunkerIdle /\ NotifierIdle /\ LoaderIdle /\ CleanupCallsIdle /\ TimingIdle /\ TokenIdle /\ MonitorIdle
DedupNext ==
    /\ \/ AppendSegment
       \/ RemoveOverlapDuplicates
       \/ RemoveOverlapDuplicatesAgain
    /\ UNCHANGED << serviceVars, chunkerVars, notifierVars, loaderVars, cleanupCallVars, timingVars, tokenVars, monitorVars >>
DedupSpec == DedupSpecInit /\ [][DedupNext]_vars

ChunkerSpecInit == ChunkerInit /\ ServiceIdle /\ DedupIdle /\ NotifierIdle /\ LoaderIdle /\ CleanupCallsIdle /\ TimingIdle /\ TokenIdle /\ MonitorIdle
ChunkerNext ==
    ProcessLargeFile /\ UNCHANGED << serviceVars, dedupVars, notifierVars, loaderVars, cleanupCallVars, timingVars, tokenVars, monitorVars >>
ChunkerSpec == ChunkerSpecInit /\ [][ChunkerNext]_vars

NotifierNext ==
    /\ \/ NotifyJobProgress
       \/ PostEnds
       \/ RetryNotification
    /\ UNCHANGED << serviceVars, dedupVars, chunkerVars, loaderVars, cleanupCallVars, timingVars, tokenVars, monitorVars >>
NotifierSpec == Init /\ [][NotifierNext]_vars

LoaderNext ==
    /\ \/ LoadModel
       \/ AttemptStrategy
    /\ UNCHANGED << serviceVars, dedupVars, chunkerVars, notifierVars,
                    cleanupCallVars, timingVars, tokenVars, monitorVars >>
LoaderSpec == Init /\ [][LoaderNext]_vars

\* the cleanup service alone, with no job running
CleanupNext ==
    /\ CleanupServiceStep
    /\ UNCHANGED << engineVars, callVars, cancelVars, notes, notify_ok,
                    reloadVars, dedupVars, chunkerVars, notifierVars, loaderVars,
                    timingVars, tokenVars, monitorVars >>
CleanupSpec == Init /\ [][CleanupNext]_vars

\* the cleanup service with its periodic policies
PolicyNext ==
    /\ \/ CleanupServiceStep
       \/ CleanupPolicyStep
    /\ UNCHANGED << engineVars, callVars, cancelVars, notes, notify_ok,
                    reloadVars, dedupVars, chunkerVars, notifierVars, loaderVars,
                    timingVars, tokenVars, monitorVars >>
PolicySpec == Init /\ [][PolicyNext]_vars

\* the timing of the segments of one job
TimingNext ==
    /\ \/ TimingStart
       \/ TimingNextChunk
       \/ TimingFinalize
    /\ UNCHANGED << serviceVars, dedupVars, chunkerVars, notifierVars,
                    loaderVars, cleanupCallVars, tokenVars, monitorVars >>
TimingSpec == Init /\ [][TimingNext]_vars

\* one generate call for an audio of any length
TokenSpecInit ==
    /\ TokenInit /\ ServiceIdle /\ DedupIdle /\ ChunkerIdle /\ NotifierIdle
    /\ LoaderIdle /\ CleanupCallsIdle /\ TimingIdle /\ MonitorIdle
TokenNext ==
    TranscribePytorch
        /\ UNCHANGED << serviceVars, dedupVars, chunkerVars, notifierVars,
                        loaderVars, cleanupCallVars, timingVars, monitorVars >>
TokenSpec == TokenSpecInit /\ [][TokenNext]_vars

\* the resource monitor alone; the scheduler runs the monitor thread
MonitorSpecInit ==
    /\ MonitorInit /\ ServiceIdle /\ DedupIdle /\ ChunkerIdle /\ NotifierIdle
    /\ LoaderIdle /\ CleanupCallsIdle /\ TimingIdle /\ TokenIdle
MonitorThreadStep ==
    /\ monitor_loop
    /\ UNCHANGED << serviceVars, dedupVars, chunkerVars, notifierVars,
                    loaderVars, cleanupCallVars, timingVars, tokenVars >>
MonitorNext ==
    \/ MonitorThreadStep
    \/ /\ \/ SetShutdownCallback
          \/ StartMonitoring
          \/ StopMonitoring
       /\ UNCHANGED << serviceVars, dedupVars, chunkerVars, notifierVars,
                       loaderVars, cleanupCallVars, timingVars, tokenVars >>
MonitorSpec == MonitorSpecInit /\ [][MonitorNext]_vars /\ WF_vars(MonitorThreadStep)

(***************************************************************************)
(* Properties.                                                             *)
(***************************************************************************)

\* inside the `async with self.active_job_semaphore` block of transcribe_file
HoldsSlot(j) ==
    pc[j] \in {"get_audio_info", "notify_job_started", "next_chunk",
               "_transcribe_chunk", "notify_chunk_completed",
               "notify_job_completed"}

\* number of places where phrase occurs in ws as consecutive words
Occurrences(phrase, ws) ==
    Cardinality({i \in 1..(Len(ws) - Len(phrase) + 1) :
                    SubSeq(ws, i, i + Len(phrase) - 1) = phrase})

\* C1: a job's status only moves (pending ->) processing -> one of completed,
\* failed, cancelled, and a status of completed, failed or cancelled never
\* changes again.
C1_TerminalStatusIsSink ==
    [][\A j \in Jobs :
          LET old == job_progress[j].status
              new == job_progress'[j].status
          IN  old # new =>
                  \/ old = "none" /\ new \in {PENDING, PROCESSING}
                  \/ old = PENDING /\ new = PROCESSING
                  \/ old = PROCESSING /\ new \in TerminalStatus]_vars

\* C2: at every moment at most MaxConcurrentRequests jobs hold a slot of the
\* admission semaphore, and the free slots are never overdrawn.
C2_AtMostMaxConcurrentProcessing ==
    /\ Cardinality({j \in Jobs : HoldsSlot(j)}) <= MaxConcurrentRequests
    /\ sem_value = MaxConcurrentRequests - Cardinality({j \in Jobs : HoldsSlot(j)})

\* C2 witness: every slot is taken while another transcribe_file call waits.
C2_Witness ==
    /\ Cardinality({j \in Jobs : HoldsSlot(j)}) = MaxConcurrentRequests
    /\ \E j \in Jobs : pc[j] = "acquire"

\* C3: once cancel_job has returned True for a job, no transcription of a
\* chunk of that job is started any more, so at most one chunk, the one in
\* flight, is still transcribed.
C3_AtMostOneChunkAfterCancel ==
    \A j \in Jobs :
        cancel_returned[j] =>
            /\ started_after_cancel[j] = 0
            /\ finished_after_cancel[j] <= 1

\* C3 witness: a job was cancelled while a chunk was in flight; that chunk was
\* finished, the call has ended and chunks of the audio were left out.
C3_Witness ==
    \E j \in Jobs :
        /\ cancel_returned[j]
        /\ finished_after_cancel[j] = 1
        /\ pc[j] = "done"
        /\ Len(chunk_results[j]) < Len(JobChunks(j))

\* C4: a job for which cancel_job returned True, and whose loop saw the
\* cancellation, produces no response body: the partial segments obtained so
\* far are discarded, not returned to the caller.
C4_CancelledJobReturnsNothing ==
    \A j \in Jobs :
        ~ ( /\ cancel_returned[j]
            /\ response[j].status = CANCELLED
            /\ response[j].returned
            /\ response[j].segments > 0 )

\* C5: for a job that was cancelled no "completed" notification is emitted:
\* no "completed" notification follows the job's "cancelled" notification.
C5_NoCompletedAfterCancelled ==
    \A j \in Jobs :
        \A i, k \in DOMAIN notes[j] :
            (i < k /\ notes[j][i].status = "cancelled")
                => notes[j][k].status # "completed"

\* C6: a job's progress_percent never decreases, and it is 100 when the
\* status becomes completed.
C6_ProgressMonotonic ==
    [][\A j \in Jobs :
          (job_progress[j].status # "none" /\ job_progress'[j].status # "none")
              => /\ PctLE(job_progress[j].progress_percent,
                          job_progress'[j].progress_percent)
                 /\ (job_progress'[j].status = COMPLETED
                        => /\ PctLE(PctHundred, job_progress'[j].progress_percent)
                           /\ PctLE(job_progress'[j].progress_percent, PctHundred))]_vars

\* C7: the number of chunks the chunker emits is max(1, ceil(D / C)), the
\* value the job reports as total_chunks.
C7_ChunkCountIsCeiling ==
    chunker_pc = "done" =>
        /\ Len(chunker_chunks) =
               Max(1, Ceil(chunker_request.duration_ms,
                           chunker_request.chunk_duration_minutes * MsPerMinute))
        /\ Len(chunker_chunks) = chunker_total

\* C8: when the last L words of a segment equal the first L words of the
\* next, overlapping segment (and the phrase occurs nowhere else in the two
\* texts), the two texts after deduplication contain the phrase exactly once.
C8_OverlapPhraseKeptOnce ==
    (dedup_pc = "cleaned" /\ Len(segments) = 2
        /\ SegmentsOverlap(segments[1], segments[2], DedupOverlapSeconds))
    => \A L \in 1..Min(Len(segments[1].text), Len(segments[2].text)) :
          LET phrase == LastWords(segments[1].text, L)
          IN  ( /\ phrase = FirstWords(segments[2].text, L)
                /\ Occurrences(phrase, segments[1].text \o segments[2].text) = 2 )
              => Occurrences(phrase, cleaned[1].text \o cleaned[2].text) = 1

\* C9: applying _remove_overlap_duplicates to its own output changes nothing.
C9_DedupIdempotent ==
    dedup_pc = "recleaned" => recleaned = cleaned

\* C10: once the delayed cleanup of a session has run, the session is no
\* longer registered and its directory is gone.
C10_DelayedCleanupCleans ==
    \A j \in Jobs :
        j \in delayed_fired =>
            /\ j \notin active_sessions
            /\ j \notin DOMAIN session_last_activity
            /\ j \notin DOMAIN protected_files
            /\ SessionDir(j) \notin disk

\* C11: after a job has reached a terminal status and its transcribe_file
\* call has ended, get_job_progress(job_id) returns the job's snapshot with
\* that status as long as the job's delayed cleanup has not fired.
C11_SnapshotKeptUntilCleanup ==
    \A j \in Jobs :
        ( /\ pc[j] = "done"
          /\ job_progress[j].status \in TerminalStatus
          /\ j \in DOMAIN cleanup_tasks
          /\ cleanup_tasks[j] = "sleeping" )
        => get_job_progress(j) = job_progress[j]

\* C12: the model is never unloaded while a job is processing: whenever a
\* job in active_jobs has status processing, the model is loaded (a reload
\* asked for at such a moment is rejected).
C12_NoReloadWhileProcessing ==
    (\E j \in active_jobs : job_progress[j].status = PROCESSING) => is_loaded

\* C13: a job waiting for a slot of the semaphore has status pending; it is
\* processing only once admitted.
C13_WaitingJobIsPending ==
    \A j \in Jobs : pc[j] = "acquire" => job_progress[j].status = PENDING

CancelledNotifications(j) ==
    Cardinality({i \in DOMAIN notes[j] : notes[j][i].status = "cancelled"})

\* C14: cancellation is idempotent: however many cancel_job calls were made
\* for a job, exactly one "cancelled" notification has been emitted for it.
C14_CancelledNotifiedOnce ==
    \A j \in Jobs : cancel_calls[j] >= 1 => CancelledNotifications(j) = 1

\* the suspension points of transcribe_file inside a notify_* call
NotifyPcs ==
    {"notify_job_started", "notify_chunk_completed", "notify_job_completed",
     "notify_job_failed"}

\* C15: a notification that failed (error status, timeout, connect error or
\* any other exception) never makes the job fail and never changes its
\* result: when such a call ends, the job's status, its chunk results and its
\* response are what they were, and the call does not enter the failure
\* handler.
C15_NotificationFailureIsHarmless ==
    [][\A j \in Jobs :
          (pc[j] \in NotifyPcs /\ pc'[j] # pc[j] /\ ~notify_ok')
              => /\ job_progress'[j].status = job_progress[j].status
                 /\ chunk_results'[j] = chunk_results[j]
                 /\ response'[j].status = response[j].status
                 /\ pc'[j] # "notify_job_failed"]_vars

\* C15 witness: a job is completed and has returned its response although
\* the last notification, its "completed" one, was not delivered.
C15_Witness ==
    \E j \in Jobs :
        /\ pc[j] = "done"
        /\ job_progress[j].status = COMPLETED
        /\ response[j].returned
        /\ ~notify_ok
        /\ \A k \in Jobs \ {j} : pc[k] = "idle"

\* the POSTs of the call that ended with `outcome` and were followed by
\* another POST
RetriesAfter(outcome) ==
    Cardinality({i \in 1..(Len(attempts) - 1) : attempts[i] = outcome})

\* C16: for one notification, whatever the receiver answers, at most 2
\* retries follow 5xx answers, at most 1 follows a connect error and none
\* follows a timeout (or any other outcome), so the call makes at most
\* max_retries + 1 attempts.
C16_RetriesBounded ==
    /\ RetriesAfter("5xx") <= 2
    /\ RetriesAfter("connect_error") <= 1
    /\ \A outcome \in ReceiverOutcomes \ {"5xx", "connect_error"} :
           RetriesAfter(outcome) = 0
    /\ Len(attempts) <= max_retries + 1
    /\ notifier_pc = "sleep" => Len(attempts) <= max_retries

\* C16 witness: a call that returned False after two retries, the first
\* after a connect error, the second after a 5xx answer.
C16_Witness ==
    /\ notifier_pc = "returned"
    /\ notifier_result = FALSE
    /\ attempts = << "connect_error", "5xx", "5xx" >>

\* C17: the progress_percent values of the notifications emitted for one
\* job are non-decreasing in emission order.
C17_NotifiedProgressMonotonic ==
    \A j \in Jobs :
        \A i \in 1..(Len(notes[j]) - 1) :
            PctLE(notes[j][i].progress_percent, notes[j][i + 1].progress_percent)

\* C18: a runtime failure while one chunk is transcribed never fails the
\* job: the chunk is recorded as a ChunkResult with status failed and the
\* error message, and the call goes on with the remaining chunks.
C18_ChunkFailureRecorded ==
    [][\A j \in Jobs :
          LET n == Len(chunk_results'[j])
          IN  (n = Len(chunk_results[j]) + 1 /\ chunk_results'[j][n].runtime_failed)
                  => /\ chunk_results'[j][n].status = FAILED
                     /\ chunk_results'[j][n].error_message # "none"
                     /\ job_progress'[j].status = job_progress[j].status
                     /\ pc'[j] = "notify_chunk_completed"]_vars

\* C19: an input that is rejected (here: the upload cannot be decoded, so
\* get_audio_info raises) never yields a job in status processing: at the
\* step where the rejection happens the job is not registered as processing.
C19_RejectedInputNeverProcessing ==
    [][\A j \in Jobs :
          (pc[j] = "get_audio_info" /\ pc'[j] = "notify_job_failed")
              => ~(j \in active_jobs /\ job_progress[j].status = PROCESSING)]_vars

\* C20: load_model runs the loaders in the order of the strategy list,
\* stops at the first loader that succeeds and returns that loader's
\* result; it returns a failure only after every strategy of the list has
\* been tried and has failed.
C20_FirstSuccessInListOrder ==
    /\ Len(attempted) <= Len(strategies)
    /\ \A i \in 1..Len(attempted) :
          /\ attempted[i].strategy = strategies[i]
          /\ attempted[i].outcome = "success"
                => /\ i = Len(attempted)
                   /\ loader_pc = "returned"
                   /\ loading_result = LoaderResult(strategies[i], "success")
    /\ (loader_pc = "returned" /\ ~loading_result.success)
          => /\ Len(attempted) = Len(strategies)
             /\ \A i \in 1..Len(attempted) : attempted[i].outcome # "success"
    /\ (loader_pc = "returned" /\ loading_result.success)
          => attempted[Len(attempted)].outcome = "success"

\* C20 witness: a list of three strategies whose first loader failed and
\* whose second succeeded, so the third was never tried.
C20_Witness ==
    /\ loader_pc = "returned"
    /\ Len(strategies) = 3
    /\ Len(attempted) = 2
    /\ attempted[1].outcome # "success"
    /\ loading_result.success
    /\ loading_result.strategy_used = strategies[2]

\* C21: when load_model returns a successful result after earlier
\* strategies failed, the warnings of the returned result refer to every
\* strategy that failed before the successful one.
C21_WarningsNameFailedStrategies ==
    (loader_pc = "returned" /\ loading_result.success)
        => \A i \in 1..(Len(attempted) - 1) :
               attempted[i].strategy \in loading_result.warnings

\* a call of the named method has just returned
CleanupCallReturns(op) ==
    /\ cleanup_call'.n = cleanup_call.n + 1
    /\ cleanup_call'.op = op

C23_UnforcedCleanupOfActiveSessionRefuses ==
    [][(/\ CleanupCallReturns("cleanup_session")
        /\ ~cleanup_call'.force
        /\ cleanup_call'.session_id \in active_sessions)
          => /\ cleanup_call'.result = 0
             /\ UNCHANGED << active_sessions, session_last_activity,
                             protected_files, cleanup_tasks, disk >>]_vars

\* C23 witness: a refused call on an active session that has a file, a
\* protected file and a sleeping task.
C23_Witness ==
    /\ cleanup_call.op = "cleanup_session"
    /\ ~cleanup_call.force
    /\ cleanup_call.session_id \in active_sessions
    /\ TaskSleeping(CleanupState, cleanup_call.session_id)
    /\ protected_files[cleanup_call.session_id] # {}
    /\ \E path \in disk : InSessionDir(path, cleanup_call.session_id)

\* C24: a session never has more than one pending delayed-cleanup task,
\* and the pending one is the task the service holds for the session.
C24_AtMostOnePendingTask ==
    \A sid \in Jobs :
        /\ pending_tasks[sid] <= 1
        /\ pending_tasks[sid] = 1 <=> TaskSleeping(CleanupState, sid)

\* C24 witness: schedule_delayed_cleanup was called for a session whose
\* earlier task was still sleeping.
C24_Witness ==
    /\ cleanup_call.op = "schedule_delayed_cleanup"
    /\ cleanup_call.result = 1
    /\ pending_tasks[cleanup_call.session_id] = 1

C26_IdenticalSegmentsCollapse ==
    (/\ dedup_pc = "cleaned"
     /\ Len(segments) = 2
     /\ SegmentsOverlap(segments[1], segments[2], DedupOverlapSeconds)
     /\ segments[1].text # << >>
     /\ segments[1].text = segments[2].text)
    => cleaned[1].text \o cleaned[2].text = segments[1].text

\* C27: when the last L words of a segment are repeated, ignoring case, as
\* the first L words of the next, overlapping segment (and occur nowhere
\* else in the two texts), the phrase occurs at most once in the joined
\* text after deduplication, whatever L and the lengths of the two texts.
C27_RepeatedPhraseAtMostOnce ==
    (/\ dedup_pc = "cleaned"
     /\ Len(segments) = 2
     /\ SegmentsOverlap(segments[1], segments[2], DedupOverlapSeconds))
    => \A L \in 1..Min(Len(segments[1].text), Len(segments[2].text)) :
          LET phrase == LowerAll(LastWords(segments[1].text, L))
          IN  ( /\ phrase = LowerAll(FirstWords(segments[2].text, L))
                /\ Occurrences(phrase, LowerAll(segments[1].text \o segments[2].text)) = 2 )
              => Occurrences(phrase, LowerAll(cleaned[1].text \o cleaned[2].text)) <= 1

\* C28: in the response of a job with more than one chunk every segment
\* starts no earlier than the segment before it ends.
C28_SegmentsDoNotOverlap ==
    (timing_pc = "done" /\ Len(audio_chunks) > 1)
        => \A i \in 2..Len(final_segments) :
               final_segments[i].start >= final_segments[i - 1].end

\* C29: the ends of adjacent segments of the response are non-decreasing,
\* whatever the audio, the configuration and the outcome of voice-activity
\* trimming.
C29_SegmentEndsMonotonic ==
    timing_pc = "done"
        => \A i \in 2..Len(final_segments) :
               final_segments[i - 1].end <= final_segments[i].end

\* C30: for every audio duration the token budget handed to generate is
\* at least 100 and at most 2048.
C30_TokenBudgetBounded ==
    token_pc = "generate" => (100 <= max_new_tokens /\ max_new_tokens <= 2048)

\* C30 witness: an audio long enough for the estimate plus the buffer to
\* exceed the cap.
C30_Witness ==
    /\ token_pc = "generate"
    /\ estimated_tokens(token_audio) + 300 > 2048
    /\ max_new_tokens = 2048

\* a path is the directory the cleanup service removes for sid, or lies in it
UnderSessionDir(path, sid) == path = SessionDir(sid) \/ InSessionDir(path, sid)

\* C31: every path written under the temp root for a job lies under the
\* directory of the session id registered with the cleanup service for that
\* job, so that the forced cleanup on cancel or failure removes it.
C31_ScratchFilesUnderRegisteredSession ==
    \A j \in Jobs :
        \A path \in disk : path[2] = j => UnderSessionDir(path, j)

\* the step is a call of the stale-file sweep or of emergency cleanup
SweepOrEmergencyCall ==
    /\ cleanup_call'.n = cleanup_call.n + 1
    /\ cleanup_call'.op \in { "cleanup_old_files", "emergency_cleanup" }

\* C32: a file registered through protect_file for a session that is in
\* active_sessions is never deleted by the stale-file sweep or by emergency
\* cleanup.
C32_ProtectedFilesSurviveSweeps ==
    [][ SweepOrEmergencyCall =>
          \A sid \in active_sessions \cap DOMAIN protected_files :
              \A file_path \in protected_files[sid] :
                  file_path \in disk => file_path \in disk' ]_vars

\* C33: every way a transcribe_file call ends (return, return after
\* cancel_job, exception) leaves the job out of active_jobs and without a
\* slot; once every submitted call has ended, all MaxConcurrentRequests
\* slots are free and active_jobs is empty.
C33_EndedJobsHoldNothing ==
    /\ \A j \in Jobs : pc[j] = "done" => (j \notin active_jobs /\ ~HoldsSlot(j))
    /\ (\A j \in Jobs : pc[j] \in {"idle", "done"})
          => (sem_value = MaxConcurrentRequests /\ active_jobs = {}
              /\ sem_waiters = << >>)

\* C33 witness: every job was submitted and has ended, one by an exception
\* and one after cancel_job.
C33_Witness ==
    /\ \A j \in Jobs : pc[j] = "done"
    /\ \E j \in Jobs : job_progress[j].status = FAILED
    /\ \E j \in Jobs : job_progress[j].status = CANCELLED /\ response[j].status = CANCELLED
    /\ sem_value = MaxConcurrentRequests
    /\ active_jobs = {}

\* C34: every submitted job eventually has a terminal status (completed,
\* failed or cancelled), provided every call it awaits returns and the
\* slots are granted in turn.
C34_EveryJobReachesTerminalStatus ==
    \A j \in Jobs :
        (pc[j] # "idle") ~> (job_progress[j].status \in TerminalStatus)

\* C34 witness: a job that queued for the slot has run through all its
\* chunks and is completed.
C34_Witness ==
    \E j \in Jobs :
        /\ pc[j] = "done"
        /\ job_progress[j].status = COMPLETED
        /\ Len(chunk_results[j]) > 1
        /\ \E k \in Jobs \ {j} : pc[k] = "done"

\* cleanup_session(job_id, force=True) has been called for the job: by
\* cancel_job, which has returned, or by the exception handler of a
\* transcribe_file call that ended without a response
ForceCleaned(j) ==
    \/ cancel_returned[j]
    \/ pc[j] = "done" /\ response[j] = NoResponse

\* C35: once a session has been force-cleaned and is not registered again,
\* the cleanup service holds no activity timestamp, no protected-file set
\* and no delayed-cleanup task for it.
C35_ForceCleanedSessionLeavesNoState ==
    \A j \in Jobs :
        (ForceCleaned(j) /\ j \notin active_sessions)
            => /\ j \notin DOMAIN session_last_activity
               /\ j \notin DOMAIN protected_files
               /\ j \notin DOMAIN cleanup_tasks

\* the monitor thread is about to take a sample
AboutToSample == monitor_pc = "loop" /\ monitoring /\ process_alive

\* C36: while monitoring is enabled and the process is alive the monitor
\* keeps sampling: from every such moment it comes to take another sample
\* (unless monitoring is stopped or the process exits), so that a later
\* sample over a limit calls the shutdown callback as the first one did.
C36_MonitorKeepsSampling ==
    [](( monitoring /\ process_alive )
          => <>( AboutToSample \/ ~monitoring \/ ~process_alive ))

\* C37: every emitted chunk after the first ends strictly later than the
\* chunk before it, so exactly one emitted chunk reaches the end of the
\* audio.
C37_ChunkEndsStrictlyIncrease ==
    chunker_pc = "done"
        => /\ \A i \in 2..Len(chunker_chunks) :
                  chunker_chunks[i].end_ms > chunker_chunks[i - 1].end_ms
           /\ Cardinality({ i \in 1..Len(chunker_chunks) :
                  chunker_chunks[i].end_ms >= chunker_request.duration_ms }) = 1

\* C38: the ordered strategy list built for a model has the recommended
\* strategy first and Standard last, and no strategy twice.
C38_RecommendedFirstStandardLast ==
    loader_pc # "idle"
        => /\ \E model_type \in ModelType :
                 LET model_info == detect_model_info(loader_env, model_type)
                 IN  /\ strategies = _get_loading_strategies(loader_env, model_info)
                     /\ strategies[1] = model_info.recommended_strategy
           /\ strategies[Len(strategies)] = STANDARD
           /\ \A i, k \in 1..Len(strategies) :
                 strategies[i] = strategies[k] => i = k

\* C39: deduplication returns as many segments as it was given, in the same
\* order, each with the start, end and confidence it had; only the text of
\* a segment may differ.
C39_DedupChangesOnlyText ==
    dedup_pc \in { "cleaned", "recleaned" }
        => /\ Len(cleaned) = Len(segments)
           /\ \A i \in 1..Len(segments) :
                 /\ cleaned[i].start = segments[i].start
                 /\ cleaned[i].end = segments[i].end
                 /\ cleaned[i].confidence = segments[i].confidence

\* C39 witness: two overlapping segments with different confidences, both
\* rewritten by the deduplication.
C39_Witness ==
    /\ dedup_pc = "cleaned"
    /\ Len(segments) = 2
    /\ segments[1].confidence # segments[2].confidence
    /\ cleaned[1].text # segments[1].text
    /\ cleaned[2].text # segments[2].text

====
